---- MODULE Spec2Model ----
(***************************************************************************)
(* CORE: keyword MatchEngine (backend/semantic_matcher.py), the            *)
(* per-question grounding pipeline and the batch orchestrator              *)
(* (api_server.py), and the DocumentCache helpers (api_server.py).         *)
(*                                                                         *)
(* Strings are sequences of one-character strings; generator responses are *)
(* sequences of tokens (see the pipeline section).  Python's None is the   *)
(* empty tuple and an optional value x is the one-element tuple <<x>>.     *)
(* List positions are Python's (zero-based); paragraphs[i] of the code is  *)
(* paragraphs[i + 1] here.                                                  *)
(***************************************************************************)
EXTENDS Integers, Sequences, FiniteSets, TLC

VARIABLES
    \* ---- match_blocks called on its own (SpecMatch) ----
    paragraphs,         \* the block list handed to match_blocks
    query,              \* the query, as the spaCy doc extract_keywords sees it
    top_n,              \* None or <<k>>
    include_neighbors,  \* BOOLEAN
    mpc,                \* "call" | "returned" | "raised"
    selected,           \* matched_indices at line 63 (before neighbor expansion)
    matched_indices,    \* matched_indices at line 73 (the subscripts read)
    matched_blocks,     \* the list match_blocks returns
    \* ---- one /hackrx/run request (Spec) ----
    GROQ_API_KEY,       \* whether the credential is set (api_server.py:20)
    req,                \* the request: documents, questions
    blocks,             \* run_hackrx's blocks (None before they are loaded)
    rpc,                \* run_hackrx: "start" | "gather" | "returned" | "raised"
    response,           \* None, or what the request answered
    qpc,                \* per question: "NEW" | "INITIAL" | "ESCALATED" | "DONE" | "FAILED"
    calls,              \* per question: generator calls made so far
    prompts,            \* per question: the contexts of the prompts sent
    matched,            \* per question: process_question's matched
    result,             \* per question: process_question's result
    reply,              \* per question: the generator's latest reply and its call
    results,            \* gather's result slots, one per awaitable
    overtaken,          \* a question finished while an earlier one was pending
    exc,                \* per question: the exception that ended its task ("" if none)
    \* ---- the DocumentCache helpers (SpecCache) ----
    processed_docs,     \* the rows of the table "processed_docs"
    cache_op,           \* the latest cache call: op, url, ok (the storage call went through)
    existing,           \* what the latest get_existing_parsed_data returned
    put_log,            \* per url: the record of the latest insert that went through
    json_store,         \* the blocks stored under the JSON handle (None: nothing yet)
    \* ---- requests loading their blocks, lines 182-209 (SpecLoad) ----
    lreq,               \* per request: the document url asked for
    lpc,                \* per request: "start" | "hit" | "miss" | "ingested" | "done" | "failed"
    lrow,               \* per request: run_hackrx's existing
    lblocks,            \* per request: run_hackrx's blocks
    lfail,              \* per request: which cache calls of it failed in the store
    \* ---- format_reference called on its own (SpecRef) ----
    ref_in,             \* the arguments: blocks, max_blocks, question
    ref_out,            \* None, or the value returned
    \* ---- the process's language resource, keyword_extractor.py (SpecNlp) ----
    spacy_model_installed, \* whether spacy.load("en_core_web_sm") can succeed
    nlp_cache,          \* get_nlp's lru_cache: None, or the loaded model
    load_attempts,      \* calls of spacy.load made by the process so far
    nlp_log,            \* the extract_keywords calls made: query and outcome
    \* ---- format_context_with_headers called on its own (SpecCtx) ----
    ctx_in,             \* the argument: chunks
    ctx_out             \* None, or the value returned

matchVars ==
    <<paragraphs, query, top_n, include_neighbors, mpc, selected,
      matched_indices, matched_blocks>>

runVars ==
    <<GROQ_API_KEY, req, blocks, rpc, response, qpc, calls, prompts, matched,
      result, reply, results, overtaken, exc>>

cacheVars ==
    <<processed_docs, cache_op, existing, put_log, json_store>>

loadVars ==
    <<lreq, lpc, lrow, lblocks, lfail>>

refVars ==
    <<ref_in, ref_out>>

nlpVars ==
    <<spacy_model_installed, nlp_cache, load_attempts, nlp_log>>

ctxVars ==
    <<ctx_in, ctx_out>>

vars ==
    <<matchVars, runVars, cacheVars, loadVars, refVars, nlpVars, ctxVars>>

None == <<>>

Some(x) == <<x>>

\* The variables of the parts a specification leaves out stay at rest.
MatchOff ==
    /\ paragraphs = <<>>
    /\ query = None
    /\ top_n = None
    /\ include_neighbors = FALSE
    /\ mpc = "off"
    /\ selected = {}
    /\ matched_indices = {}
    /\ matched_blocks = <<>>

RunOff ==
    /\ GROQ_API_KEY = FALSE
    /\ req = None
    /\ blocks = None
    /\ rpc = "off"
    /\ response = None
    /\ qpc = <<>>
    /\ calls = <<>>
    /\ prompts = <<>>
    /\ matched = <<>>
    /\ result = <<>>
    /\ reply = <<>>
    /\ results = <<>>
    /\ overtaken = FALSE
    /\ exc = <<>>

CacheOff ==
    /\ processed_docs = <<>>
    /\ cache_op = None
    /\ existing = None
    /\ put_log = <<>>
    /\ json_store = None

LoadOff ==
    /\ lreq = <<>>
    /\ lpc = <<>>
    /\ lrow = <<>>
    /\ lblocks = <<>>
    /\ lfail = <<>>

RefOff ==
    /\ ref_in = None
    /\ ref_out = None

NlpOff ==
    /\ spacy_model_installed = TRUE
    /\ nlp_cache = None
    /\ load_attempts = 0
    /\ nlp_log = <<>>

CtxOff ==
    /\ ctx_in = None
    /\ ctx_out = None

\* ---------------------------------------------------------------------
\* Bounds
\* ---------------------------------------------------------------------
MaxBlocks == 3

MaxTopN == 3

NumQuestions == 2

MaxRows == 3

NumRequests == 2

MaxRefBlocks == 3

MaxMaxBlocks == 3

MaxExtractCalls == 3

MaxCtxBlocks == 3

\* ---------------------------------------------------------------------
\* Python helpers
\* ---------------------------------------------------------------------
Min(a, b) == IF a <= b THEN a ELSE b

Max(a, b) == IF a >= b THEN a ELSE b

\* str.lower(): the alphabet of the model has one upper-case letter.
lower(s) ==
    [i \in 1..Len(s) |-> IF s[i] = "A" THEN "a" ELSE s[i]]

\* str.count(sub): occurrences of sub in text, scanning left to right and
\* skipping past each occurrence found (non-overlapping).
RECURSIVE count_from(_, _, _)
count_from(text, sub, i) ==
    IF i + Len(sub) - 1 > Len(text) THEN 0
    ELSE IF SubSeq(text, i, i + Len(sub) - 1) = sub
         THEN 1 + count_from(text, sub, i + Len(sub))
         ELSE count_from(text, sub, i + 1)

str_count(text, sub) ==
    count_from(text, sub, 1)

\* seq[:n] of Python, n of either sign.
py_prefix(s, n) ==
    IF n >= 0 THEN SubSeq(s, 1, Min(n, Len(s)))
    ELSE SubSeq(s, 1, Max(Len(s) + n, 0))

\* seq[i] of Python is defined for -len <= i < len and raises IndexError
\* otherwise; a negative subscript counts from the end.
py_in_range(s, i) ==
    -Len(s) <= i /\ i < Len(s)

py_index(s, i) ==
    IF i >= 0 THEN s[i + 1] ELSE s[Len(s) + i + 1]

\* sorted(set of integers)
RECURSIVE sorted(_)
sorted(S) ==
    IF S = {} THEN <<>>
    ELSE LET m == CHOOSE x \in S : \A y \in S : x <= y
         IN  <<m>> \o sorted(S \ {m})

\* sum(text.count(keyword) for keyword in keywords)
RECURSIVE sum_counts(_, _)
sum_counts(text, keywords) ==
    IF keywords = {} THEN 0
    ELSE LET k == CHOOSE x \in keywords : TRUE
         IN  str_count(text, k) + sum_counts(text, keywords \ {k})

\* ---------------------------------------------------------------------
\* KeywordExtractor (keyword_extractor.py)
\* ---------------------------------------------------------------------
\* A query is the spaCy doc of its text: its noun chunks, its entities and
\* its tokens (text, is_stop, is_alpha).  spaCy itself is a library.
extract_keywords(q) ==
    {lower(c) : c \in {c \in q.noun_chunks : Len(c) > 2}}
    \cup {lower(e) : e \in {e \in q.ents : Len(e) > 2}}
    \cup {lower(t.text) : t \in {t \in q.tokens :
                                    ~t.is_stop /\ t.is_alpha /\ Len(t.text) > 2}}

\* get_nlp, lines 5-14, under functools.lru_cache(maxsize=1): a call whose
\* result is cached returns it; otherwise the body runs, spacy.load is
\* attempted, and only a value that is returned is cached.  An exception
\* leaves the cache as it was.
get_nlp(cache, installed) ==
    IF cache # None
    THEN [raised |-> FALSE, value |-> cache, cache |-> cache, loads |-> 0]
    ELSE IF installed
         THEN [raised |-> FALSE, value |-> Some("en_core_web_sm"),
               cache |-> Some("en_core_web_sm"), loads |-> 1]
         ELSE [raised |-> TRUE, value |-> None, cache |-> None, loads |-> 1]

\* ---------------------------------------------------------------------
\* MatchEngine (backend/semantic_matcher.py, match_blocks)
\* ---------------------------------------------------------------------
\* match_score of one block: lines 52-53.
match_score(block, keywords) ==
    sum_counts(lower(block.text), keywords)

\* Lines 50-55: the (score, idx) pairs of the blocks that score above zero,
\* in input order.
scored_positive(pars, keywords) ==
    LET keep == {i \in 0..(Len(pars) - 1) : match_score(pars[i + 1], keywords) > 0}
        idxs == sorted(keep)
    IN  [k \in 1..Len(idxs) |-> <<match_score(pars[idxs[k] + 1], keywords), idxs[k]>>]

\* Lines 50-58: with the fallback to every block at score 0.
scored_no_fallback(pars, keywords) ==
    scored_positive(pars, keywords)

scored_blocks(pars, keywords) ==
    IF scored_positive(pars, keywords) = <<>>
    THEN [k \in 1..Len(pars) |-> <<0, k - 1>>]
    ELSE scored_positive(pars, keywords)

sort_skipped(s) ==
    s

\* Line 59: list.sort(reverse=True, key=score) is stable: entries of equal
\* score keep their order.  Insertion after the last entry of a score >= x's.
RECURSIVE sort_reverse(_)
sort_reverse(s) ==
    IF s = <<>> THEN <<>>
    ELSE LET init == sort_reverse(SubSeq(s, 1, Len(s) - 1))
             x    == s[Len(s)]
             pos  == Cardinality({k \in 1..Len(init) : init[k][1] >= x[1]})
         IN  SubSeq(init, 1, pos) \o <<x>> \o SubSeq(init, pos + 1, Len(init))

\* Lines 60-61.
truncate_ignored(scored, topn) ==
    scored

truncate(scored, topn) ==
    IF topn # None THEN py_prefix(scored, topn[1]) ELSE scored

\* Line 63.
indices_of(scored) ==
    {scored[k][2] : k \in 1..Len(scored)}

\* Lines 65-70.
neighbor_indices_unguarded(sel, n) ==
    {i - 1 : i \in sel} \cup {i + 1 : i \in {i \in sel : i + 1 < n}}

neighbor_indices(sel, n) ==
    {i - 1 : i \in {i \in sel : i - 1 >= 0}}
    \cup {i + 1 : i \in {i \in sel : i + 1 < n}}

\* Lines 64-71.
expand(sel, n, neighbors) ==
    IF neighbors THEN sel \cup neighbor_indices(sel, n) ELSE sel

\* Line 73: [paragraphs[i] for i in sorted(matched_indices)].
blocks_in_rank_order(pars, scored, indices) ==
    LET rank == indices_of(scored)
        rest == sorted(indices \ rank)
    IN  [k \in 1..Len(scored) |-> py_index(pars, scored[k][2])]
        \o [k \in 1..Len(rest) |-> py_index(pars, rest[k])]

blocks_at(pars, scored, indices) ==
    LET idxs == sorted(indices)
    IN  [k \in 1..Len(idxs) |-> py_index(pars, idxs[k])]

\* A control character of a block's text (one of those listed at lines
\* 12-17).
CtrlChar == "^A"

ControlChars == {CtrlChar}

\* sanitize_text_for_json, lines 7-25: the text without control characters
\* (tab, newline and carriage return stay); a value that is no string is
\* returned as it is.
RECURSIVE sanitize_text_for_json(_)
sanitize_text_for_json(text) ==
    IF text = <<>> THEN <<>>
    ELSE IF text[1] \in ControlChars
         THEN sanitize_text_for_json(Tail(text))
         ELSE <<text[1]>> \o sanitize_text_for_json(Tail(text))

\* The fields of a block that hold a string (None is no string).
StringFields == {"text", "header"}

\* sanitize_block_for_json, lines 28-36: a new dict with every string
\* sanitized.
sanitize_block_for_json(block) ==
    [f \in DOMAIN block |->
        IF f \in StringFields THEN sanitize_text_for_json(block[f])
        ELSE IF f = "flagged_text" /\ block[f] # None
             THEN Some(sanitize_text_for_json(block[f][1]))
             ELSE block[f]]

\* The caller's list after lines 73-74.
paragraphs_sanitized_in_place(pars, indices) ==
    [k \in 1..Len(pars) |->
        IF (k - 1) \in indices THEN sanitize_block_for_json(pars[k]) ELSE pars[k]]

\* Lines 73-74 build new lists and new dicts and assign to nothing of the
\* caller: the caller's list is what it was.
paragraphs_after(pars, indices) ==
    pars

\* match_blocks, lines 47-83.  upload_ok is the outcome of the export
\* (upload_to_supabase, line 78), which raises when the storage call fails.
match_blocks(pars, q, topn, neighbors, upload_ok) ==
    LET keywords == extract_keywords(q)
        scored   == truncate(sort_reverse(scored_blocks(pars, keywords)), topn)
        sel      == indices_of(scored)
        indices  == expand(sel, Len(pars), neighbors)
        inrange  == \A i \in indices : py_in_range(pars, i)
    IN  [raised          |-> IF ~inrange THEN "IndexError"
                             ELSE IF ~upload_ok THEN "UploadError"
                             ELSE "",
         selected        |-> sel,
         matched_indices |-> indices,
         matched_blocks  |-> IF inrange /\ upload_ok
                             THEN blocks_at(pars, scored, indices)
                             ELSE <<>>,
         exported        |-> IF inrange
                             THEN LET mb == blocks_at(pars, scored, indices)
                                  IN  [k \in 1..Len(mb) |-> sanitize_block_for_json(mb[k])]
                             ELSE <<>>,
         paragraphs      |-> IF inrange THEN paragraphs_after(pars, indices) ELSE pars]

\* ---------------------------------------------------------------------
\* Inputs of match_blocks
\* ---------------------------------------------------------------------
Tok(text, stop) ==
    [text |-> text, is_stop |-> stop, is_alpha |-> TRUE]

KwA == <<"a", "b", "a">>

KwB == <<"b", "b", "b">>

Queries ==
    { [noun_chunks |-> {}, ents |-> {}, tokens |-> {Tok(<<"a", "b">>, FALSE), Tok(KwB, TRUE)}],
      [noun_chunks |-> {}, ents |-> {}, tokens |-> {Tok(<<"A", "b", "a">>, FALSE)}],
      [noun_chunks |-> {KwB}, ents |-> {}, tokens |-> {Tok(KwB, FALSE)}],
      [noun_chunks |-> {}, ents |-> {KwA}, tokens |-> {Tok(KwA, FALSE), Tok(KwB, FALSE)}] }

BlockTexts ==
    { <<>>,
      <<"A", "b", "a">>,
      <<"a", "b", "a", "b", "a">>,
      <<"b", "b", "b", "a", "b", "a", "a", "b", "a">> }

\* The ingestion collaborator numbers the blocks in reading order.
Ingested(texts) ==
    [i \in 1..Len(texts) |-> [order_index |-> i - 1, text |-> texts[i]]]

TextSeqs(n) ==
    UNION {[1..k -> BlockTexts] : k \in 0..n}

TopNs ==
    {None} \cup {Some(k) : k \in 0..MaxTopN}

InitMatch ==
    /\ paragraphs \in {Ingested(t) : t \in TextSeqs(MaxBlocks)}
    /\ query \in Queries
    /\ top_n \in TopNs
    /\ include_neighbors \in BOOLEAN
    /\ mpc = "call"
    /\ selected = {}
    /\ matched_indices = {}
    /\ matched_blocks = <<>>
    /\ RunOff
    /\ CacheOff
    /\ LoadOff
    /\ RefOff
    /\ NlpOff
    /\ CtxOff

MatchCall(upload_ok) ==
    /\ mpc = "call"
    /\ LET r == match_blocks(paragraphs, query, top_n, include_neighbors, upload_ok)
       IN  /\ mpc' = IF r.raised = "" THEN "returned" ELSE "raised"
           /\ selected' = r.selected
           /\ matched_indices' = r.matched_indices
           /\ matched_blocks' = r.matched_blocks
           /\ paragraphs' = r.paragraphs
    /\ UNCHANGED <<query, top_n, include_neighbors>>
    /\ UNCHANGED <<runVars, cacheVars, loadVars, refVars, nlpVars, ctxVars>>

MatchReturns ==
    MatchCall(TRUE)

MatchUploadFails ==
    MatchCall(FALSE)

NextMatch ==
    \/ MatchReturns
    \/ MatchUploadFails

SpecMatch ==
    InitMatch /\ [][NextMatch]_vars

\* ---------------------------------------------------------------------
\* The language resource over the life of the process (keyword_extractor.py)
\* ---------------------------------------------------------------------
\* Importing keyword_extractor loads nothing: get_nlp is first called by the
\* first extract_keywords.
InitNlp ==
    /\ spacy_model_installed \in BOOLEAN
    /\ nlp_cache = None
    /\ load_attempts = 0
    /\ nlp_log = <<>>
    /\ MatchOff
    /\ RunOff
    /\ CacheOff
    /\ LoadOff
    /\ RefOff
    /\ CtxOff

\* extract_keywords(q), lines 17-34, as match_blocks calls it at line 47 of
\* backend/semantic_matcher.py: get_nlp first, whose RuntimeError leaves
\* both functions.
ExtractKeywords(q) ==
    /\ Len(nlp_log) < MaxExtractCalls
    /\ LET g == get_nlp(nlp_cache, spacy_model_installed)
       IN  /\ nlp_cache' = g.cache
           /\ load_attempts' = load_attempts + g.loads
           /\ nlp_log' = Append(nlp_log,
                  [query    |-> q,
                   raised   |-> IF g.raised THEN "RuntimeError" ELSE "",
                   keywords |-> IF g.raised THEN {} ELSE extract_keywords(q)])
    /\ UNCHANGED spacy_model_installed
    /\ UNCHANGED <<matchVars, runVars, cacheVars, loadVars, refVars, ctxVars>>

NextNlp ==
    \E q \in Queries : ExtractKeywords(q)

SpecNlp ==
    InitNlp /\ [][NextNlp]_vars

\* ---------------------------------------------------------------------
\* Embedding MatchEngine (semantic_matcher.py, match_blocks)
\* ---------------------------------------------------------------------
\* Cosine similarities in tenths; the encoder is a library, so the
\* similarity of the query to each block is an input.
SimLevels == {0, 1, 2, 5}

\* Line 35: score > 0.1
SimThreshold == 1

\* Line 35: the (score, idx) pairs of the blocks above the threshold, in
\* input order (zip stops at the shorter of the two lists).
embed_scored(pars, sims) ==
    LET n    == Min(Len(pars), Len(sims))
        keep == {i \in 0..(n - 1) : sims[i + 1] > SimThreshold}
        idxs == sorted(keep)
    IN  [k \in 1..Len(idxs) |-> <<sims[idxs[k] + 1], idxs[k]>>]

\* match_blocks of semantic_matcher.py, lines 17-46, with cache_embeddings
\* at its default: the blocks above the threshold in descending score
\* (line 36, stable), exported (line 42, raises when the storage call
\* fails) and returned.
embed_match_blocks(pars, sims, upload_ok) ==
    LET scored == sort_reverse(embed_scored(pars, sims))
    IN  [raised          |-> IF upload_ok THEN "" ELSE "UploadError",
         selected        |-> indices_of(scored),
         matched_indices |-> indices_of(scored),
         matched_blocks  |-> IF upload_ok
                             THEN [k \in 1..Len(scored) |-> py_index(pars, scored[k][2])]
                             ELSE <<>>]

InitEmbed ==
    /\ paragraphs \in {Ingested(t) : t \in TextSeqs(MaxBlocks)}
    /\ query \in {[similarities |-> sm] : sm \in [1..Len(paragraphs) -> SimLevels]}
    /\ top_n = None
    /\ include_neighbors = FALSE
    /\ mpc = "call"
    /\ selected = {}
    /\ matched_indices = {}
    /\ matched_blocks = <<>>
    /\ RunOff
    /\ CacheOff
    /\ LoadOff
    /\ RefOff
    /\ NlpOff
    /\ CtxOff

EmbedCall(upload_ok) ==
    /\ mpc = "call"
    /\ LET r == embed_match_blocks(paragraphs, query.similarities, upload_ok)
       IN  /\ mpc' = IF r.raised = "" THEN "returned" ELSE "raised"
           /\ selected' = r.selected
           /\ matched_indices' = r.matched_indices
           /\ matched_blocks' = r.matched_blocks
    /\ UNCHANGED <<paragraphs, query, top_n, include_neighbors>>
    /\ UNCHANGED <<runVars, cacheVars, loadVars, refVars, nlpVars, ctxVars>>

EmbedReturns ==
    EmbedCall(TRUE)

EmbedUploadFails ==
    EmbedCall(FALSE)

NextEmbed ==
    \/ EmbedReturns
    \/ EmbedUploadFails

SpecEmbed ==
    InitEmbed /\ [][NextEmbed]_vars

\* ---------------------------------------------------------------------
\* Text helpers of the answer pipeline (api_server.py)
\* ---------------------------------------------------------------------
\* A generator response is a sequence of tokens: a phrase, a word, a run of
\* digits or one whitespace character.  No phrase of the model arises from
\* joining two other tokens, so substring search is search for a run of
\* tokens.
Whitespace == {" ", "\n", "\t"}

RECURSIVE lstrip(_)
lstrip(s) ==
    IF s # <<>> /\ s[1] \in Whitespace THEN lstrip(Tail(s)) ELSE s

RECURSIVE rstrip(_)
rstrip(s) ==
    IF s # <<>> /\ s[Len(s)] \in Whitespace
    THEN rstrip(SubSeq(s, 1, Len(s) - 1))
    ELSE s

\* str.strip()
py_strip(s) ==
    rstrip(lstrip(s))

\* needle in hay
contains(hay, needle) ==
    \E i \in 1..(Len(hay) - Len(needle) + 1) :
        SubSeq(hay, i, i + Len(needle) - 1) = needle

\* The sentinel of the prompt (api_server.py:237, 249) and the phrase the
\* groundedness check looks for (api_server.py:254).
Sentinel == <<"Answer not found", " ", "in the provided document.">>

AnswerNotFound == <<"Answer not found">>

\* HTTP statuses of the generator's replies.
Statuses == {200, 401, 403, 500}

DigitTokens == {"7"} \cup {ToString(st) : st \in Statuses}

\* re.search(r'\d', result)
has_digit(r) ==
    \E k \in 1..Len(r) : r[k] \in DigitTokens

\* api_server.py:254: ("Answer not found" in result) or not re.search(r'\d', result)
is_ungrounded_sentinel_only(r) ==
    r = Sentinel

is_ungrounded_digit_unnegated(r) ==
    contains(r, AnswerNotFound) \/ has_digit(r)

is_ungrounded_errors_final(r) ==
    /\ ~(r # <<>> /\ r[1] = "Error: ")
    /\ (contains(r, AnswerNotFound) \/ ~has_digit(r))

is_ungrounded(r) ==
    contains(r, AnswerNotFound) \/ ~has_digit(r)

\* ---------------------------------------------------------------------
\* Generator client (api_server.py, query_groq)
\* ---------------------------------------------------------------------
\* The HTTP call ends without a response (connection error, or the client's
\* default timeout): session.post raises.
NoResponse == 0

Contents ==
    { Sentinel,
      <<"yes">>,
      <<"7", " ">>,
      <<"Answer not found", " ", "7">> }

\* What the HTTP call can come back with: a status and, for 200, a body that
\* parses to a message content or does not.
GenOutcomes ==
    {[status |-> 200, parsable |-> TRUE, content |-> c] : c \in Contents}
    \cup {[status |-> 200, parsable |-> FALSE, content |-> <<>>]}
    \cup {[status |-> st, parsable |-> FALSE, content |-> <<>>] : st \in Statuses \ {200}}
    \cup {[status |-> NoResponse, parsable |-> FALSE, content |-> <<>>]}

query_groq_raising(o) ==
    IF o.status = 200 /\ o.parsable
    THEN [raised |-> "", value |-> o.content]
    ELSE [raised |-> "HTTPException", value |-> <<>>]

\* query_groq, lines 144-170: the string it returns, or the exception it
\* raises: the HTTPException (status 502) on 401 / 403, and whatever
\* session.post raises when no response arrives.
query_groq(o) ==
    IF o.status = NoResponse
    THEN [raised |-> "ClientError", value |-> <<>>]
    ELSE IF o.status = 200
    THEN IF o.parsable
         THEN [raised |-> "", value |-> o.content]
         ELSE [raised |-> "", value |-> <<"Error: ", "Failed to parse Groq response">>]
    ELSE IF o.status \in {401, 403}
         THEN [raised |-> "HTTPException", value |-> <<>>]
         ELSE [raised |-> "",
               value |-> <<"Error: ", "Groq returned status", " ", ToString(o.status)>>]

\* ---------------------------------------------------------------------
\* Reference formatter (api_server.py, format_reference)
\* ---------------------------------------------------------------------
\* dict.get(key, default)
dict_get(d, key, default) ==
    IF key \in DOMAIN d THEN d[key] ELSE default

Range(s) ==
    {s[k] : k \in 1..Len(s)}

\* Line 93: max_blocks=3
DefaultMaxBlocks == 3

\* Lines 96-100, in the order the dict is iterated.
relevant_flags ==
    << [key |-> <<"grace", " ", "period">>, flags |-> <<"CONDITION", "HIGH PRIORITY">>],
       [key |-> <<"maternity">>,
        flags |-> <<"MATERNITY", "COVERS", "EXCLUDES", "CONDITION">>],
       [key |-> <<"moratorium">>,
        flags |-> <<"PRE-EXISTING", "HIGH PRIORITY", "CONDITION">>] >>

\* Line 101: question.lower(), on the words of the questions of the model.
question_lower(question) ==
    [k \in 1..Len(question) |->
        CASE question[k] = "Maternity" -> "maternity"
          [] question[k] = "Grace" -> "grace"
          [] question[k] = "What" -> "what"
          [] OTHER -> question[k]]

\* Lines 102-106: the flags of the first key found in the question.
selected_flags(question) ==
    LET hits == {k \in 1..Len(relevant_flags) :
                    contains(question_lower(question), relevant_flags[k].key)}
    IN  IF hits = {} THEN <<>>
        ELSE relevant_flags[CHOOSE k \in hits : \A j \in hits : k <= j].flags

\* Lines 107-113
prioritized_blocks(blks, flags) ==
    LET keep(b) == \/ flags = <<>>
                   \/ \E f \in Range(flags) : f \in Range(dict_get(b, "coverage_flags", <<>>))
    IN  SelectSeq(blks, keep)

\* Lines 115 and 123: block.get("header", "No Header").strip()
header_of(block) ==
    py_strip(dict_get(block, "header", <<"No Header">>))

\* Lines 114-120: the loop appends first and tests the length afterwards.
RECURSIVE unique_from(_, _, _, _, _)
unique_from(prioritized, k, seen_headers, unique_blocks, max_blocks) ==
    IF k > Len(prioritized) THEN unique_blocks
    ELSE LET header == header_of(prioritized[k])
             added  == IF header \notin seen_headers
                       THEN Append(unique_blocks, prioritized[k])
                       ELSE unique_blocks
         IN  IF Len(added) >= max_blocks THEN added
             ELSE unique_from(prioritized, k + 1, seen_headers \cup {header},
                              added, max_blocks)

Digits == {"0", "1", "2", "3", "4", "5", "6", "7", "8", "9"}

\* The length of the run of digits of s that starts at position i.
RECURSIVE digits_at(_, _)
digits_at(s, i) ==
    IF i <= Len(s) /\ s[i] \in Digits THEN 1 + digits_at(s, i + 1) ELSE 0

\* The end of what (\.\d+)? matches from position i on: past a dot and its
\* digits if both are there, else i itself.
dotted_level(s, i) ==
    IF i <= Len(s) /\ s[i] = "." /\ digits_at(s, i + 1) > 0
    THEN i + 1 + digits_at(s, i + 1)
    ELSE i

\* Lines 125-126: re.match(r'^\[?(\d+(\.\d+(\.\d+)?)?)\.?', header), group 1,
\* or "Unknown" without a match.
section_number(header) ==
    LET start == IF header # <<>> /\ header[1] = "[" THEN 2 ELSE 1
        d1    == start + digits_at(header, start)
        d2    == dotted_level(header, d1)
        d3    == IF d2 > d1 THEN dotted_level(header, d2) ELSE d2
    IN  IF d1 = start THEN <<"Unknown">>
        ELSE SubSeq(header, start, d3 - 1)

\* Lines 124 and 127: f"Page {page} : Section {section_number} : {header}"
reference_line(block) ==
    LET page == IF "page" \in DOMAIN block THEN ToString(block.page) ELSE "Unknown"
    IN  <<"Page", " ", page, " ", ":", " ", "Section", " ">>
          \o section_number(header_of(block))
          \o <<" ", ":", " ">> \o header_of(block)

\* ", ".join(references)
RECURSIVE join(_)
join(lines) ==
    IF lines = <<>> THEN <<>>
    ELSE IF Len(lines) = 1 THEN lines[1]
    ELSE lines[1] \o <<",", " ">> \o join(Tail(lines))

\* format_reference, lines 93-128: the blocks cited, their lines, and the
\* string returned.
format_reference(blks, max_blocks, question) ==
    LET unique_blocks == unique_from(prioritized_blocks(blks, selected_flags(question)),
                                     1, {}, <<>>, max_blocks)
        references    == [k \in 1..Len(unique_blocks) |-> reference_line(unique_blocks[k])]
    IN  [unique_blocks |-> unique_blocks,
         references    |-> references,
         value         |-> IF references # <<>> THEN join(references)
                           ELSE <<"No relevant sections found">>]

\* ---------------------------------------------------------------------
\* Prompt context and answer (api_server.py)
\* ---------------------------------------------------------------------
RECURSIVE context_from_reset(_, _, _)
context_from_reset(chunks, k, current_header) ==
    IF k > Len(chunks) THEN <<>>
    ELSE LET block  == chunks[k]
             header == py_strip(block.header)
             text   == py_strip(IF block.flagged_text # None
                                THEN block.flagged_text[1]
                                ELSE block.text)
             emit   == header # <<>> /\ Some(header) # current_header
         IN  (IF emit THEN <<[kind |-> "header", value |-> header]>> ELSE <<>>)
             \o <<[kind |-> "text", value |-> text]>>
             \o context_from_reset(chunks, k + 1,
                                   IF header = <<>> THEN None ELSE Some(header))

\* format_context_with_headers, lines 80-90, as the list of the lines it
\* emits: a header line when the block's header is non-empty and differs
\* from current_header, then the block's text.
RECURSIVE context_from(_, _, _)
context_from(chunks, k, current_header) ==
    IF k > Len(chunks) THEN <<>>
    ELSE LET block  == chunks[k]
             header == py_strip(block.header)
             text   == py_strip(IF block.flagged_text # None
                                THEN block.flagged_text[1]
                                ELSE block.text)
             emit   == header # <<>> /\ Some(header) # current_header
         IN  (IF emit THEN <<[kind |-> "header", value |-> header]>> ELSE <<>>)
             \o <<[kind |-> "text", value |-> text]>>
             \o context_from(chunks, k + 1,
                             IF emit THEN Some(header) ELSE current_header)

format_context_with_headers(chunks) ==
    context_from(chunks, 1, None)

\* Lines 226-250 and 257-281: the prompt is a fixed instruction text around
\* the context and the question.
prompt_of(context, question) ==
    [context |-> context, question |-> question]

\* Lines 284-287: the answer of one question, result.strip() followed by the
\* references formatted from m and the question's text (max_blocks at its
\* default); cited is the list of blocks the references were made of.
answer(res, m, question) ==
    LET r == format_reference(m, DefaultMaxBlocks, question.text)
    IN  [text      |-> py_strip(res),
         reference |-> r.value,
         cited     |-> r.unique_blocks]

cited_from_context(m, bs, callno) ==
    IF callno = 2 THEN bs ELSE m

\* Line 284: format_reference(matched, question=question), whether or not
\* the second call was made.
cited_from(m, bs, callno) ==
    m

\* Lines 252 and 282: result = await query_groq(...).
assigned_once(old, value) ==
    IF old # None THEN old ELSE Some(value)

assigned(old, value) ==
    Some(value)

\* Line 254: where the pipeline goes after the first response.
after_first(r) ==
    IF is_ungrounded(r) THEN "ESCALATED" ELSE "DONE"

\* Lines 282-287: the second response is final.
after_second_rechecked(r) ==
    IF is_ungrounded(r) THEN "ESCALATED" ELSE "DONE"

after_second(r) ==
    "DONE"

\* asyncio.gather (lines 290-292) keeps one result slot per awaitable, in the
\* order the awaitables were given.
collect_as_completed(slots, i, ans) ==
    LET free == CHOOSE j \in DOMAIN slots :
                    slots[j] = None /\ \A k \in DOMAIN slots : slots[k] = None => j <= k
    IN  [slots EXCEPT ![free] = Some(ans)]

collect(slots, i, ans) ==
    [slots EXCEPT ![i] = Some(ans)]

\* ---------------------------------------------------------------------
\* DocumentCache (api_server.py, get_existing_parsed_data / save_processed_doc)
\* ---------------------------------------------------------------------
CacheUrls ==
    {"https://example.com/policy.pdf", "https://example.com/b.pdf",
     "https://example.com/c.pdf"}

\* run_hackrx stores every document under the same two handles (lines 191-209).
PdfStoragePath == "pdf/input.pdf"

JsonUrl == "doc-processing/json/reconstructed_paragraphs.json"

\* Lines 42-46: the row save_processed_doc inserts.
processed_doc(pdf_url, pdf_storage_path, json_url) ==
    [url |-> pdf_url, pdf_storage_path |-> pdf_storage_path, json_url |-> json_url]

\* Lines 42-46: insert(...).execute(); the store numbers the rows.
insert(table, rec) ==
    Append(table, [id |-> Len(table) + 1, url |-> rec.url,
                   pdf_storage_path |-> rec.pdf_storage_path,
                   json_url |-> rec.json_url])

select_all(table, pdf_url) ==
    {table[k] : k \in 1..Len(table)}

\* Line 31: select("*").eq("url", pdf_url).execute().data
select_eq_url(table, pdf_url) ==
    {table[k] : k \in {k \in 1..Len(table) : table[k].url = pdf_url}}

\* get_existing_parsed_data, lines 28-36: the values it can return.  The
\* query has no ORDER BY, so res.data[0] is any of the rows selected; a
\* storage error is caught and None returned.
get_existing_parsed_data(table, pdf_url, storage_ok) ==
    IF storage_ok /\ select_eq_url(table, pdf_url) # {}
    THEN {Some(r) : r \in select_eq_url(table, pdf_url)}
    ELSE {None}

\* The fields of a returned row that save_processed_doc wrote.
Written(row) ==
    processed_doc(row.url, row.pdf_storage_path, row.json_url)

InitCache ==
    /\ processed_docs = <<>>
    /\ cache_op = [op |-> "none", url |-> "", ok |-> TRUE]
    /\ existing = None
    /\ put_log = [u \in CacheUrls |-> None]
    /\ json_store = None
    /\ MatchOff
    /\ RunOff
    /\ LoadOff
    /\ RefOff
    /\ NlpOff
    /\ CtxOff

\* get_existing_parsed_data(url)
CacheGet(url, storage_ok) ==
    /\ existing' \in get_existing_parsed_data(processed_docs, url, storage_ok)
    /\ cache_op' = [op |-> "get", url |-> url, ok |-> storage_ok]
    /\ UNCHANGED <<processed_docs, put_log, json_store>>
    /\ UNCHANGED <<matchVars, runVars, loadVars, refVars, nlpVars, ctxVars>>

\* save_processed_doc(url, "pdf/input.pdf", json_url): the insert goes
\* through, or the store raises and the error is caught (lines 47-48).
CachePut(url, storage_ok) ==
    /\ Len(processed_docs) < MaxRows
    /\ LET rec == processed_doc(url, PdfStoragePath, JsonUrl)
       IN  IF storage_ok
           THEN /\ processed_docs' = insert(processed_docs, rec)
                /\ put_log' = [put_log EXCEPT ![url] = Some(rec)]
           ELSE UNCHANGED <<processed_docs, put_log>>
    /\ cache_op' = [op |-> "put", url |-> url, ok |-> storage_ok]
    /\ UNCHANGED <<existing, json_store>>
    /\ UNCHANGED <<matchVars, runVars, loadVars, refVars, nlpVars, ctxVars>>

NextCache ==
    \/ \E url \in CacheUrls, ok \in BOOLEAN : CacheGet(url, ok)
    \/ \E url \in CacheUrls, ok \in BOOLEAN : CachePut(url, ok)

SpecCache ==
    InitCache /\ [][NextCache]_vars

\* ---------------------------------------------------------------------
\* One request to /hackrx/run (api_server.py, run_hackrx)
\* ---------------------------------------------------------------------
TopN == 8

QIdx == 0..(NumQuestions - 1)

DocUrl == "https://example.com/policy.pdf"

\* The block sequence of the document, as the ingestion collaborator (or the
\* cached JSON) delivers it.
Document ==
    << [order_index |-> 0, page |-> 1, header |-> <<"1", " ", "Intro">>,
        text |-> <<"a", "b", "a", " ">>, flagged_text |-> None,
        coverage_flags |-> <<"CONDITION", "COVERS">>],
       [order_index |-> 1, page |-> 1, header |-> <<"1", " ", "Intro", " ">>,
        text |-> <<"b">>, flagged_text |-> Some(<<"[", "b", "]">>)],
       [order_index |-> 2, page |-> 2, header |-> <<>>,
        text |-> <<"b", "b", "b", CtrlChar>>, flagged_text |-> None],
       [order_index |-> 3, page |-> 2, header |-> <<"2", ".", "1", " ", "Exclusions">>,
        text |-> <<"b", "a">>, flagged_text |-> None,
        coverage_flags |-> <<"EXCLUDES">>] >>

\* Two more documents, of one block each.
DocumentB ==
    << [order_index |-> 0, page |-> 1, header |-> <<"1", " ", "Scope">>,
        text |-> <<"a">>, flagged_text |-> None] >>

DocumentC ==
    << [order_index |-> 0, page |-> 1, header |-> <<>>,
        text |-> <<"b", "a", "b">>, flagged_text |-> None] >>

\* Lines 193-204: the document behind url is downloaded and turned into its
\* block sequence by the ingestion collaborator.
extract_formatted_blocks(url) ==
    IF url = DocUrl THEN Document
    ELSE IF url = "https://example.com/b.pdf" THEN DocumentB
    ELSE DocumentC

\* Line 205: the blocks are stored under the one JSON handle of line 208.
save_blocks_to_json(store, bs) ==
    Some(bs)

\* Line 188: requests.get(existing["json_url"]).json(); every row carries
\* the same json_url, so what comes back is whatever was stored last.
fetch_json(row, store) ==
    store[1]

\* Lines 185-206: the blocks of a request, from the cached JSON on a hit
\* and from a fresh ingestion on a miss.
load_blocks(row, store, url) ==
    IF row # None THEN fetch_json(row[1], store) ELSE extract_formatted_blocks(url)

\* Three questions: keywords found in one block, no keyword at all (the
\* fallback), keywords found in another block.
QuestionCycle ==
    << [text |-> <<"What", " ", "is", " ", "covered", "?">>,
        noun_chunks |-> {}, ents |-> {}, tokens |-> {Tok(KwA, FALSE)}],
       [text |-> <<"Maternity", " ", "cover", "?">>,
        noun_chunks |-> {}, ents |-> {}, tokens |-> {Tok(<<"a", "b">>, FALSE)}],
       [text |-> <<"moratorium", " ", "or", " ", "Grace", " ", "period", "?">>,
        noun_chunks |-> {KwB}, ents |-> {}, tokens |-> {}] >>

Questions ==
    [k \in 1..NumQuestions |-> QuestionCycle[((k - 1) % Len(QuestionCycle)) + 1]]

Pending(i) ==
    qpc[i] \in {"INITIAL", "ESCALATED"}

InitRun ==
    /\ GROQ_API_KEY \in BOOLEAN
    /\ req = [documents |-> DocUrl, questions |-> Questions]
    /\ blocks = None
    /\ rpc = "start"
    /\ response = None
    /\ qpc = [i \in QIdx |-> "NEW"]
    /\ calls = [i \in QIdx |-> 0]
    /\ prompts = [i \in QIdx |-> <<>>]
    /\ matched = [i \in QIdx |-> None]
    /\ result = [i \in QIdx |-> None]
    /\ reply = [i \in QIdx |-> None]
    /\ results = [i \in QIdx |-> None]
    /\ overtaken = FALSE
    /\ exc = [i \in QIdx |-> ""]
    /\ \E warm \in BOOLEAN :
          LET rec == processed_doc(DocUrl, PdfStoragePath, JsonUrl)
          IN  /\ processed_docs = IF warm THEN insert(<<>>, rec) ELSE <<>>
              /\ json_store = IF warm THEN Some(Document) ELSE None
              /\ put_log = [u \in CacheUrls |->
                               IF warm /\ u = DocUrl THEN Some(rec) ELSE None]
    /\ cache_op = [op |-> "none", url |-> "", ok |-> TRUE]
    /\ existing = None
    /\ MatchOff
    /\ LoadOff
    /\ RefOff
    /\ NlpOff
    /\ CtxOff

key_check_skipped(key) ==
    FALSE

\* Line 177: if not GROQ_API_KEY, the first statement of run_hackrx.
key_missing(key) ==
    ~key

\* Lines 177-178.
RunHackrxNoKey ==
    /\ rpc = "start"
    /\ key_missing(GROQ_API_KEY)
    /\ rpc' = "raised"
    /\ response' = Some([status_code |-> 500, detail |-> "Groq API key not set"])
    /\ UNCHANGED <<GROQ_API_KEY, req, blocks, qpc, calls, prompts, matched,
                   result, reply, results, overtaken, exc>>
    /\ UNCHANGED <<matchVars, cacheVars, loadVars, refVars, nlpVars, ctxVars>>

\* Lines 182-206 when the blocks cannot be had: the cached JSON cannot be
\* fetched (line 188, answered 500 by lines 299-300) or the document cannot
\* be downloaded (lines 193-195, answered 400).
RunHackrxLoadFails(get_ok) ==
    /\ rpc = "start"
    /\ ~key_missing(GROQ_API_KEY)
    /\ existing' \in get_existing_parsed_data(processed_docs, req.documents, get_ok)
    /\ cache_op' = [op |-> "get", url |-> req.documents, ok |-> get_ok]
    /\ rpc' = "raised"
    /\ response' = IF existing' = None
                   THEN Some([status_code |-> 400, detail |-> "Failed to download PDF"])
                   ELSE Some([status_code |-> 500, detail |-> "JSONDecodeError"])
    /\ UNCHANGED <<processed_docs, put_log, json_store>>
    /\ UNCHANGED <<GROQ_API_KEY, req, blocks, qpc, calls, prompts, matched,
                   result, reply, results, overtaken, exc>>
    /\ UNCHANGED <<matchVars, loadVars, refVars, nlpVars, ctxVars>>

task_restarted(qpcs, i) ==
    [qpcs EXCEPT ![i] = "INITIAL"]

task_retried(qpcs, i) ==
    [qpcs EXCEPT ![i] = "ESCALATED"]

siblings_cancelled(qpcs, i) ==
    [j \in DOMAIN qpcs |->
        IF j = i THEN "FAILED"
        ELSE IF qpcs[j] \in {"INITIAL", "ESCALATED"} THEN "CANCELLED"
        ELSE qpcs[j]]

\* A task that raises is over; its siblings are left as they are.
task_raised(qpcs, i) ==
    [qpcs EXCEPT ![i] = "FAILED"]

gather_swallows(state) ==
    state

\* Lines 290-292: gather hands the first exception of a task to run_hackrx,
\* which is then over (lines 297-300); later exceptions find it over.
gather_raises(state) ==
    IF state = "gather" THEN "raised" ELSE state

\* Lines 297-300: an HTTPException goes out as it is, anything else as 500.
error_response(raised) ==
    IF raised = "HTTPException"
    THEN [status_code |-> 502, detail |-> "Groq rejected the request"]
    ELSE [status_code |-> 500, detail |-> raised]

\* Lines 211-222 and 290-292: the tasks are started in the order of the
\* questions and share run_hackrx's blocks: task i hands match_blocks the
\* list as the tasks before it left it.
RECURSIVE blocks_seen(_, _, _, _)
blocks_seen(bs, questions, upload_fails, i) ==
    IF i = 0 THEN bs
    ELSE match_blocks(blocks_seen(bs, questions, upload_fails, i - 1),
                      questions[i], Some(TopN), TRUE,
                      ~upload_fails[i - 1]).paragraphs

\* Lines 180-252 and 289-292: the cache is asked for the document, the blocks
\* are loaded (and on a miss the document is recorded in the cache, whose
\* errors are swallowed), and gather starts one task
\* per question; each task runs match_blocks and builds its first prompt
\* without yielding, and suspends in its first generator call.  A task whose
\* export raises ends there, and gather hands the exception to run_hackrx
\* (lines 299-300) while the other tasks go on.
RunHackrx(upload_fails, get_ok, put_ok) ==
    /\ rpc = "start"
    /\ ~key_missing(GROQ_API_KEY)
    /\ existing' \in get_existing_parsed_data(processed_docs, req.documents, get_ok)
    /\ LET rec == processed_doc(req.documents, PdfStoragePath, JsonUrl)
       IN  IF existing' # None
           THEN /\ cache_op' = [op |-> "get", url |-> req.documents, ok |-> get_ok]
                /\ UNCHANGED <<processed_docs, put_log, json_store>>
           ELSE /\ cache_op' = [op |-> "put", url |-> req.documents, ok |-> put_ok]
                /\ json_store' = save_blocks_to_json(json_store,
                                     extract_formatted_blocks(req.documents))
                /\ processed_docs' = IF put_ok THEN insert(processed_docs, rec)
                                     ELSE processed_docs
                /\ put_log' = IF put_ok
                              THEN [put_log EXCEPT ![req.documents] = Some(rec)]
                              ELSE put_log
    /\ LET bs    == load_blocks(existing', json_store, req.documents)
           m(i)  == match_blocks(blocks_seen(bs, req.questions, upload_fails, i),
                                 req.questions[i + 1], Some(TopN), TRUE,
                                 ~upload_fails[i])
           ok(i) == m(i).raised = ""
       IN  /\ blocks' = Some(blocks_seen(bs, req.questions, upload_fails, NumQuestions))
           /\ matched' = [i \in QIdx |-> IF ok(i) THEN Some(m(i).matched_blocks) ELSE None]
           /\ qpc' = [i \in QIdx |-> IF ok(i) THEN "INITIAL" ELSE "FAILED"]
           /\ calls' = [i \in QIdx |-> IF ok(i) THEN 1 ELSE 0]
           /\ prompts' = [i \in QIdx |->
                 IF ok(i)
                 THEN <<prompt_of(format_context_with_headers(m(i).matched_blocks),
                                  req.questions[i + 1])>>
                 ELSE <<>>]
           /\ rpc' = IF \A i \in QIdx : ok(i) THEN "gather" ELSE "raised"
           /\ response' = IF \A i \in QIdx : ok(i)
                          THEN None
                          ELSE Some(error_response("UploadError"))
           /\ overtaken' = \E i, j \in QIdx : j < i /\ ~ok(i) /\ ok(j)
           /\ exc' = [i \in QIdx |-> m(i).raised]
    /\ UNCHANGED <<GROQ_API_KEY, req, result, reply, results>>
    /\ UNCHANGED <<matchVars, loadVars, refVars, nlpVars, ctxVars>>

full_context_of_matched(bs, m) ==
    format_context_with_headers(m)

\* Line 256: full_context = format_context_with_headers(blocks), with
\* run_hackrx's blocks and not process_question's matched.
full_context(bs, m) ==
    format_context_with_headers(bs)

\* The generator's reply to question i's pending call arrives and the task
\* runs to its next suspension or to its end (lines 252-287).
Resume(i, o, callno, nxt) ==
    LET g == query_groq(o)
    IN  /\ calls[i] = callno
        /\ IF g.raised # ""
           THEN \* lines 158-165 and 297-300: the exception ends the task, and
                \* the first one to reach gather ends the request
                /\ qpc' = task_raised(qpc, i)
                /\ exc' = [exc EXCEPT ![i] = g.raised]
                /\ rpc' = gather_raises(rpc)
                /\ response' = IF rpc = "gather"
                               THEN Some(error_response(g.raised))
                               ELSE response
                /\ overtaken' = (overtaken \/ \E j \in QIdx : j < i /\ Pending(j))
                /\ UNCHANGED <<calls, prompts, result, reply, results>>
           ELSE /\ result' = [result EXCEPT ![i] = assigned(@, g.value)]
                /\ reply' = [reply EXCEPT ![i] = Some([call |-> callno, value |-> g.value])]
                /\ IF nxt = "ESCALATED"
                   THEN \* lines 255-282: the prompt over the whole document
                        /\ qpc' = [qpc EXCEPT ![i] = "ESCALATED"]
                        /\ calls' = [calls EXCEPT ![i] = callno + 1]
                        /\ prompts' = [prompts EXCEPT ![i] =
                              Append(@, prompt_of(full_context(blocks[1], matched[i][1]),
                                                  req.questions[i + 1]))]
                        /\ UNCHANGED <<results, overtaken>>
                   ELSE \* lines 284-287
                        /\ qpc' = [qpc EXCEPT ![i] = "DONE"]
                        /\ results' = collect(results, i,
                              answer(result'[i][1],
                                     cited_from(matched[i][1], blocks[1], callno),
                                     req.questions[i + 1]))
                        /\ overtaken' = (overtaken \/ \E j \in QIdx : j < i /\ Pending(j))
                        /\ UNCHANGED <<calls, prompts>>
                /\ UNCHANGED <<rpc, response, exc>>
        /\ UNCHANGED <<GROQ_API_KEY, req, blocks, matched>>
        /\ UNCHANGED <<matchVars, cacheVars, loadVars, refVars, nlpVars, ctxVars>>

FirstReply(i, o) ==
    /\ qpc[i] = "INITIAL"
    /\ Resume(i, o, 1, after_first(query_groq(o).value))

SecondReply(i, o) ==
    /\ qpc[i] = "ESCALATED"
    /\ Resume(i, o, calls[i], after_second(query_groq(o).value))

\* Lines 290-295: every task has returned and gather hands back the slots.
GatherReturns ==
    /\ rpc = "gather"
    /\ \A i \in QIdx : qpc[i] = "DONE"
    /\ rpc' = "returned"
    /\ response' = Some([answers |-> [k \in 1..NumQuestions |-> results[k - 1][1]]])
    /\ UNCHANGED <<GROQ_API_KEY, req, blocks, qpc, calls, prompts, matched,
                   result, reply, results, overtaken, exc>>
    /\ UNCHANGED <<matchVars, cacheVars, loadVars, refVars, nlpVars, ctxVars>>

Next ==
    \/ RunHackrxNoKey
    \/ \E get_ok \in BOOLEAN : RunHackrxLoadFails(get_ok)
    \/ \E f \in [QIdx -> BOOLEAN], get_ok \in BOOLEAN, put_ok \in BOOLEAN :
          RunHackrx(f, get_ok, put_ok)
    \/ \E i \in QIdx, o \in GenOutcomes : FirstReply(i, o)
    \/ \E i \in QIdx, o \in GenOutcomes : SecondReply(i, o)
    \/ GatherReturns

Spec ==
    InitRun /\ [][Next]_vars

\* The synchronous part of run_hackrx (lines 177-222) runs to its end.
Start ==
    \/ RunHackrxNoKey
    \/ \E get_ok \in BOOLEAN : RunHackrxLoadFails(get_ok)
    \/ \E f \in [QIdx -> BOOLEAN], get_ok \in BOOLEAN, put_ok \in BOOLEAN :
          RunHackrx(f, get_ok, put_ok)

\* The request handler runs once the request is in; every generator call
\* that is pending completes (with a reply, or with the HTTP client's
\* error), the event loop resumes the task it belongs to, and gather
\* returns once every task has.
FairSpec ==
    /\ Spec
    /\ WF_vars(Start)
    /\ \A i \in QIdx : WF_vars(\E o \in GenOutcomes : FirstReply(i, o))
    /\ \A i \in QIdx : WF_vars(\E o \in GenOutcomes : SecondReply(i, o))
    /\ WF_vars(GatherReturns)

\* ---------------------------------------------------------------------
\* Requests loading their blocks (api_server.py, run_hackrx lines 182-209),
\* one storage call at a time; requests served by different workers
\* interleave at the storage calls.
\* ---------------------------------------------------------------------
Reqs == 1..NumRequests

LoadUrls == {DocUrl, "https://example.com/b.pdf"}

InFlight(r) ==
    lpc[r] \notin {"done", "failed"}

InitLoad ==
    /\ lreq \in [Reqs -> LoadUrls]
    /\ lpc = [r \in Reqs |-> "start"]
    /\ lrow = [r \in Reqs |-> None]
    /\ lblocks = [r \in Reqs |-> None]
    /\ lfail = [r \in Reqs |-> {}]
    /\ processed_docs = <<>>
    /\ cache_op = [op |-> "none", url |-> "", ok |-> TRUE]
    /\ existing = None
    /\ put_log = [u \in CacheUrls |-> None]
    /\ json_store = None
    /\ MatchOff
    /\ RunOff
    /\ RefOff
    /\ NlpOff
    /\ CtxOff

\* Line 182: existing = get_existing_parsed_data(req.documents)
LoadLookup(r, get_fails) ==
    /\ lpc[r] = "start"
    /\ existing' \in get_existing_parsed_data(processed_docs, lreq[r], ~get_fails)
    /\ cache_op' = [op |-> "get", url |-> lreq[r], ok |-> ~get_fails]
    /\ lrow' = [lrow EXCEPT ![r] = existing']
    /\ lpc' = [lpc EXCEPT ![r] = IF existing' # None THEN "hit" ELSE "miss"]
    /\ lfail' = [lfail EXCEPT ![r] = IF get_fails THEN @ \cup {"get"} ELSE @]
    /\ UNCHANGED <<processed_docs, put_log, json_store, lreq, lblocks>>
    /\ UNCHANGED <<matchVars, runVars, refVars, nlpVars, ctxVars>>

\* Line 188: the blocks are read from the JSON the row points to.
LoadFetch(r) ==
    /\ lpc[r] = "hit"
    /\ lblocks' = [lblocks EXCEPT ![r] = Some(load_blocks(lrow[r], json_store, lreq[r]))]
    /\ lpc' = [lpc EXCEPT ![r] = "done"]
    /\ UNCHANGED <<lreq, lrow, lfail>>
    /\ UNCHANGED <<matchVars, runVars, cacheVars, refVars, nlpVars, ctxVars>>

\* Lines 191-208: download, ingestion, and the blocks stored as JSON.
LoadIngest(r) ==
    /\ lpc[r] = "miss"
    /\ lblocks' = [lblocks EXCEPT ![r] = Some(load_blocks(lrow[r], json_store, lreq[r]))]
    /\ json_store' = save_blocks_to_json(json_store, extract_formatted_blocks(lreq[r]))
    /\ lpc' = [lpc EXCEPT ![r] = "ingested"]
    /\ UNCHANGED <<processed_docs, cache_op, existing, put_log>>
    /\ UNCHANGED <<lreq, lrow, lfail>>
    /\ UNCHANGED <<matchVars, runVars, refVars, nlpVars, ctxVars>>

\* Line 209: save_processed_doc(req.documents, "pdf/input.pdf", json_url)
LoadSave(r, put_fails) ==
    /\ lpc[r] = "ingested"
    /\ LET rec == processed_doc(lreq[r], PdfStoragePath, JsonUrl)
       IN  IF put_fails
           THEN UNCHANGED <<processed_docs, put_log>>
           ELSE /\ processed_docs' = insert(processed_docs, rec)
                /\ put_log' = [put_log EXCEPT ![lreq[r]] = Some(rec)]
    /\ cache_op' = [op |-> "put", url |-> lreq[r], ok |-> ~put_fails]
    /\ lpc' = [lpc EXCEPT ![r] = "done"]
    /\ lfail' = [lfail EXCEPT ![r] = IF put_fails THEN @ \cup {"put"} ELSE @]
    /\ UNCHANGED <<existing, json_store, lreq, lrow, lblocks>>
    /\ UNCHANGED <<matchVars, runVars, refVars, nlpVars, ctxVars>>

\* Lines 188 and 193-195: the JSON cannot be fetched, or the document cannot
\* be downloaded; the request answers with an error.
LoadRaises(r) ==
    /\ lpc[r] \in {"hit", "miss"}
    /\ lpc' = [lpc EXCEPT ![r] = "failed"]
    /\ UNCHANGED <<lreq, lrow, lblocks, lfail>>
    /\ UNCHANGED <<matchVars, runVars, cacheVars, refVars, nlpVars, ctxVars>>

\* The worker takes its next request.
LoadNew(r, url) ==
    /\ ~InFlight(r)
    /\ Len(processed_docs) + Cardinality({q \in Reqs : InFlight(q)}) < MaxRows
    /\ lreq' = [lreq EXCEPT ![r] = url]
    /\ lpc' = [lpc EXCEPT ![r] = "start"]
    /\ lrow' = [lrow EXCEPT ![r] = None]
    /\ lblocks' = [lblocks EXCEPT ![r] = None]
    /\ lfail' = [lfail EXCEPT ![r] = {}]
    /\ UNCHANGED <<matchVars, runVars, cacheVars, refVars, nlpVars, ctxVars>>

NextLoad ==
    \/ \E r \in Reqs, get_fails \in BOOLEAN : LoadLookup(r, get_fails)
    \/ \E r \in Reqs : LoadFetch(r)
    \/ \E r \in Reqs : LoadIngest(r)
    \/ \E r \in Reqs, put_fails \in BOOLEAN : LoadSave(r, put_fails)
    \/ \E r \in Reqs : LoadRaises(r)
    \/ \E r \in Reqs, url \in LoadUrls : LoadNew(r, url)

SpecLoad ==
    InitLoad /\ [][NextLoad]_vars

\* ---------------------------------------------------------------------
\* format_context_with_headers on its own (api_server.py, lines 80-90)
\* ---------------------------------------------------------------------
CtxHeaders ==
    { <<>>, <<" ">>, <<"A">>, <<"A", " ">>, <<"B">> }

CtxBlocks ==
    {[header |-> h, text |-> <<"t">>, flagged_text |-> None] : h \in CtxHeaders}

CtxBlockSeqs(n) ==
    UNION {[1..k -> CtxBlocks] : k \in 0..n}

InitCtx ==
    /\ ctx_in \in {Some(c) : c \in CtxBlockSeqs(MaxCtxBlocks)}
    /\ ctx_out = None
    /\ MatchOff
    /\ RunOff
    /\ CacheOff
    /\ LoadOff
    /\ RefOff
    /\ NlpOff

FormatContext ==
    /\ ctx_out = None
    /\ ctx_out' = Some(format_context_with_headers(ctx_in[1]))
    /\ UNCHANGED ctx_in
    /\ UNCHANGED <<matchVars, runVars, cacheVars, loadVars, refVars, nlpVars>>

NextCtx ==
    FormatContext

SpecCtx ==
    InitCtx /\ [][NextCtx]_vars

\* ---------------------------------------------------------------------
\* Inputs of format_reference
\* ---------------------------------------------------------------------
RefBlocks ==
    { [header |-> <<"2", ".", "1", " ", "Exclusions">>, page |-> 2,
       coverage_flags |-> <<"EXCLUDES">>],
      [header |-> <<" ", "2", ".", "1", " ", "Exclusions", " ">>, page |-> 5,
       coverage_flags |-> <<>>],
      [header |-> <<"Exclusions">>, page |-> 3],
      [header |-> <<"1", " ", "Intro">>, page |-> 1,
       coverage_flags |-> <<"CONDITION", "COVERS">>],
      [header |-> <<"1", ".", "2", ".", "3", ".", "4", " ", "Waiting">>, page |-> 4,
       coverage_flags |-> <<"PRE-EXISTING">>],
      [header |-> <<"[", "1", "2", ".", "5", "]", " ", "Limits">>, page |-> 6],
      [coverage_flags |-> <<"MATERNITY">>] }

RECURSIVE RefBlockSeqs(_)
RefBlockSeqs(n) ==
    IF n = 0 THEN {<<>>}
    ELSE RefBlockSeqs(n - 1)
         \cup {Append(s, b) : s \in {t \in RefBlockSeqs(n - 1) : Len(t) = n - 1},
                              b \in RefBlocks}

RefQuestions ==
    { <<"What", " ", "is", " ", "covered", "?">>,
      <<"Maternity", " ", "cover", "?">>,
      <<"moratorium", " ", "or", " ", "Grace", " ", "period", "?">> }

InitRef ==
    /\ ref_in \in [blocks : RefBlockSeqs(MaxRefBlocks),
                   max_blocks : 0..MaxMaxBlocks,
                   question : RefQuestions]
    /\ ref_out = None
    /\ MatchOff
    /\ RunOff
    /\ CacheOff
    /\ LoadOff
    /\ NlpOff
    /\ CtxOff

FormatReference ==
    /\ ref_out = None
    /\ ref_out' = Some(format_reference(ref_in.blocks, ref_in.max_blocks, ref_in.question))
    /\ UNCHANGED ref_in
    /\ UNCHANGED <<matchVars, runVars, cacheVars, loadVars, nlpVars, ctxVars>>

NextRef ==
    FormatReference

SpecRef ==
    InitRef /\ [][NextRef]_vars

\* ---------------------------------------------------------------------
\* Properties of match_blocks (checked under SpecMatch)
\* ---------------------------------------------------------------------
Positions(bs) ==
    {bs[k].order_index : k \in 1..Len(bs)}

KeywordsMiss ==
    \A i \in 1..Len(paragraphs) : match_score(paragraphs[i], extract_keywords(query)) = 0

\* C1 as stated: for every non-empty block sequence, every query, every
\* top_n (unset or any non-negative integer) and either include_neighbors,
\* the list match_blocks returns is non-empty.
C1_FallbackAnyTopN ==
    (mpc = "returned" /\ Len(paragraphs) > 0) => matched_blocks # <<>>

\* C1 amended: for every non-empty block sequence, every query, either
\* include_neighbors and every top_n that is unset or at least 1, the list
\* match_blocks returns is non-empty (top_n = 0 selects nothing).
C1_FallbackNonEmpty ==
    (mpc = "returned" /\ Len(paragraphs) > 0 /\ top_n # Some(0))
        => matched_blocks # <<>>

\* C1 witness: no keyword occurs in any block, and the fallback returned
\* blocks under a top_n of 1.
C1_Witness ==
    /\ mpc = "returned"
    /\ Len(paragraphs) = MaxBlocks
    /\ KeywordsMiss
    /\ top_n = Some(1)
    /\ ~include_neighbors
    /\ Len(matched_blocks) = 1

\* C2: the returned list holds only blocks of the input, each at most once,
\* in strictly ascending input position, whatever the scores were.
C2_AscendingSubset ==
    mpc = "returned" =>
        /\ \A k \in 1..Len(matched_blocks) :
              /\ matched_blocks[k].order_index \in 0..(Len(paragraphs) - 1)
              /\ matched_blocks[k] = paragraphs[matched_blocks[k].order_index + 1]
        /\ \A k \in 1..(Len(matched_blocks) - 1) :
              matched_blocks[k].order_index < matched_blocks[k + 1].order_index

\* C2 witness: two blocks are returned and the later one scores strictly
\* higher than the earlier one, so rank order and input order differ.
C2_Witness ==
    /\ mpc = "returned"
    /\ Len(matched_blocks) >= 2
    /\ \E k \in 1..(Len(matched_blocks) - 1) :
          /\ matched_blocks[k].order_index \in selected
          /\ matched_blocks[k + 1].order_index \in selected
          /\ match_score(matched_blocks[k], extract_keywords(query)) > 0
          /\ match_score(matched_blocks[k], extract_keywords(query))
                < match_score(matched_blocks[k + 1], extract_keywords(query))

\* C3: with top_n = k at most k distinct blocks are selected before the
\* neighbor expansion; without neighbors the result has at most k blocks,
\* and with neighbors every returned block is selected or directly adjacent
\* to a selected block.
C3_TopNBound ==
    (mpc # "call" /\ top_n # None) =>
        /\ Cardinality(selected) <= top_n[1]
        /\ (mpc = "returned" /\ ~include_neighbors)
              => Len(matched_blocks) <= top_n[1]
        /\ (mpc = "returned" /\ include_neighbors)
              => \A k \in 1..Len(matched_blocks) :
                    \E i \in selected :
                        matched_blocks[k].order_index \in {i - 1, i, i + 1}

\* C3 witness: more blocks score above zero than top_n allows, and the
\* truncated selection was expanded by a neighbor.
C3_Witness ==
    /\ mpc = "returned"
    /\ top_n = Some(1)
    /\ include_neighbors
    /\ Cardinality({i \in 1..Len(paragraphs) :
            match_score(paragraphs[i], extract_keywords(query)) > 0}) >= 2
    /\ Cardinality(selected) = 1
    /\ Len(matched_blocks) = 2
    /\ Len(paragraphs) = MaxBlocks

\* C4: neighbor expansion adds, for each selected position i, exactly the
\* positions i-1 and i+1 that lie in [0, len-1]; no subscript outside
\* [0, len-1] is read, and every position appears once in the result.
C4_NeighborsInBounds ==
    mpc # "call" =>
        /\ matched_indices \subseteq 0..(Len(paragraphs) - 1)
        /\ include_neighbors =>
              matched_indices =
                  selected \cup {j \in 0..(Len(paragraphs) - 1) :
                                    \E i \in selected : j = i - 1 \/ j = i + 1}
        /\ ~include_neighbors => matched_indices = selected
        /\ mpc = "returned" =>
              /\ Len(matched_blocks) = Cardinality(matched_indices)
              /\ Positions(matched_blocks) = matched_indices

\* C4 witness: the first and the last block are selected and share their
\* only in-bounds neighbor, which is returned once.
C4_Witness ==
    /\ mpc = "returned"
    /\ include_neighbors
    /\ Len(paragraphs) = 3
    /\ selected = {0, 2}
    /\ Len(matched_blocks) = 3

\* ---------------------------------------------------------------------
\* Properties of the question pipeline and the batch (checked under Spec)
\* ---------------------------------------------------------------------
\* The first response of question i is the latest reply it has received.
FirstResponseIs(i, r) ==
    reply[i] # None /\ reply[i][1].call = 1 /\ reply[i][1].value = r

HasFirstResponse(i) ==
    reply[i] # None /\ reply[i][1].call = 1

Escalated(i) ==
    calls[i] = 2

\* C5: escalation happens at most once per question: one generator call in
\* INITIAL, at most one more in ESCALATED, never more than two, and the
\* second call is made only after the first response was judged ungrounded.
C5_AtMostOneEscalation ==
    \A i \in QIdx :
        /\ calls[i] <= 2
        /\ Len(prompts[i]) = calls[i]
        /\ qpc[i] = "INITIAL" => calls[i] = 1
        /\ qpc[i] = "DONE" => calls[i] \in {1, 2}
        /\ qpc[i] = "ESCALATED" => calls[i] = 2
        /\ calls[i] = 0 => qpc[i] \in {"NEW", "FAILED"}
        /\ calls[i] = 2 =>
              /\ result[i] # None
              /\ HasFirstResponse(i) => is_ungrounded(reply[i][1].value)

\* C5 witness: one question is done after a single call and another one is
\* done after its escalated second call.
C5_Witness ==
    \E i, j \in QIdx :
        /\ qpc[i] = "DONE" /\ calls[i] = 1
        /\ qpc[j] = "DONE" /\ calls[j] = 2 /\ reply[j][1].call = 2

C8_FinalAnswer ==
    \A i \in QIdx :
        /\ qpc[i] = "DONE" =>
              /\ reply[i] # None
              /\ reply[i][1].call = calls[i]
              /\ results[i] # None
              /\ results[i][1].text = py_strip(reply[i][1].value)
        /\ (reply[i] # None /\ reply[i][1].call = 2) => qpc[i] = "DONE"

\* C8 witness: a question is done with the sentinel as its escalated, final
\* answer, and another with a digit-free second response.
C8_Witness ==
    \E i, j \in QIdx :
        /\ qpc[i] = "DONE" /\ calls[i] = 2 /\ results[i][1].text = Sentinel
        /\ qpc[j] = "DONE" /\ calls[j] = 2 /\ results[j][1].text = <<"yes">>

\* C9: whenever the batch returns answers, the list has one entry per
\* question and its i-th entry is the answer of the pipeline run for q_i,
\* whatever the completion order was.
C9_OrderPreserved ==
    rpc = "returned" =>
        /\ Len(response[1].answers) = NumQuestions
        /\ \A k \in 1..NumQuestions :
              response[1].answers[k] =
                  answer(result[k - 1][1], matched[k - 1][1], req.questions[k])

\* C9 witness: the batch returned although a later question finished before
\* an earlier one, and the first two answers differ.
C9_Witness ==
    /\ rpc = "returned"
    /\ overtaken
    /\ qpc[NumQuestions - 1] = "DONE" /\ calls[NumQuestions - 1] = 1
    /\ calls[0] = 2
    /\ response[1].answers[1].text # response[1].answers[2].text

RowsOf(u) ==
    select_eq_url(processed_docs, u)

LatestRow(u) ==
    CHOOSE r \in RowsOf(u) : \A q \in RowsOf(u) : q.id <= r.id

\* C11 as stated: after any sequence of puts there is at most one record per
\* key, and a get that finds a record returns the one written last, never
\* an earlier one.
C11_OneRecordLastWriteWins ==
    /\ \A u \in CacheUrls : Cardinality(RowsOf(u)) <= 1
    /\ (cache_op.op = "get" /\ existing # None)
          => existing[1] = LatestRow(cache_op.url)

\* C11 case: two puts of one key went through and a get of that key handed
\* back the row of the first.
C11_Witness ==
    /\ cache_op.op = "get"
    /\ existing # None
    /\ Cardinality(RowsOf(cache_op.url)) = 2
    /\ existing[1].id < LatestRow(cache_op.url).id

\* C12 as stated: a failing cache get gives the request no row and sends it
\* to ingestion, a failing cache put lets it finish with the blocks it has,
\* and the failed get does not change the blocks the answers are made from:
\* where a row exists, the JSON a hit would have read holds the very blocks
\* the ingestion yields.
C12_CacheFailuresSwallowed ==
    [][\A r \in Reqs :
          /\ (lpc[r] = "start" /\ lpc'[r] # "start" /\ "get" \in lfail'[r]) =>
                /\ lrow'[r] = None
                /\ lpc'[r] = "miss"
                /\ RowsOf(lreq[r]) # {} =>
                      json_store = Some(extract_formatted_blocks(lreq[r]))
          /\ (lpc[r] = "ingested" /\ lpc'[r] # "ingested" /\ "put" \in lfail'[r]) =>
                /\ lpc'[r] = "done"
                /\ lblocks'[r] = lblocks[r]]_vars

\* The part of C12 that holds: both failures are swallowed and the request
\* goes on.
C12_Swallowed ==
    [][\A r \in Reqs :
          /\ (lpc[r] = "start" /\ lpc'[r] # "start" /\ "get" \in lfail'[r]) =>
                (lrow'[r] = None /\ lpc'[r] = "miss")
          /\ (lpc[r] = "ingested" /\ lpc'[r] # "ingested" /\ "put" \in lfail'[r]) =>
                (lpc'[r] = "done" /\ lblocks'[r] = lblocks[r])]_vars

\* C12 case: a request for a cached document finished after its lookup
\* failed, with blocks other than the ones the cached JSON holds.
C12_Witness ==
    \E r \in Reqs :
        /\ lpc[r] = "ingested"
        /\ "get" \in lfail[r]
        /\ \E row \in RowsOf(lreq[r]) : row.id = 1
        /\ Len(processed_docs) = 2
        /\ processed_docs[2].url # lreq[r]

\* Requests r and q asked for the same document, both found no row although
\* their lookups went through, both ingested it and both recorded it.
BothMissed(r, q) ==
    /\ r # q
    /\ lreq[r] = lreq[q]
    /\ lpc[r] = "done" /\ lpc[q] = "done"
    /\ lrow[r] = None /\ lrow[q] = None
    /\ lfail[r] = {} /\ lfail[q] = {}

\* C13 as stated: when two concurrent first requests for an unseen document
\* both miss, both ingest and both put, each of them has the blocks of the
\* document (so the answers of a single request), and from then on every
\* row a get of the twice-recorded key can return resolves to the blocks of
\* that document.
C13_DuplicateIngestionNeutral ==
    /\ \A r, q \in Reqs :
          BothMissed(r, q) =>
              /\ lblocks[r] = Some(extract_formatted_blocks(lreq[r]))
              /\ lblocks[q] = Some(extract_formatted_blocks(lreq[r]))
              /\ Cardinality(RowsOf(lreq[r])) >= 2
    /\ \A k \in LoadUrls :
          Cardinality(RowsOf(k)) >= 2 =>
              \A row \in RowsOf(k) :
                  load_blocks(Some(row), json_store, k) = extract_formatted_blocks(k)

\* C13 case: both requests missed and put, the table holds their two rows,
\* and the JSON handle has since been overwritten by another document.
C13_Witness ==
    /\ \E k \in LoadUrls :
          /\ Cardinality(RowsOf(k)) = 2
          /\ processed_docs[1].url = k
          /\ processed_docs[2].url = k
          /\ json_store # Some(extract_formatted_blocks(k))
    /\ Len(processed_docs) = 2
    /\ \A r \in Reqs : "get" \notin lfail[r]

\* ---------------------------------------------------------------------
\* The export hook of match_blocks (checked under SpecMatch)
\* ---------------------------------------------------------------------
\* C14 as stated: whether or not the export of the matched subset fails,
\* match_blocks returns, and returns the blocks it returns when the export
\* succeeds.
C14_ExportFailureHarmless ==
    mpc # "call" =>
        /\ mpc = "returned"
        /\ matched_blocks =
              match_blocks(paragraphs, query, top_n, include_neighbors, TRUE).matched_blocks

\* C14 case: the export failed for a call that had blocks to return, and
\* match_blocks raised.
C14_Witness ==
    /\ mpc = "raised"
    /\ Len(paragraphs) = 2
    /\ matched_indices # {}
    /\ match_blocks(paragraphs, query, top_n, include_neighbors, TRUE).matched_blocks # <<>>

\* ---------------------------------------------------------------------
\* Properties of format_reference (checked under SpecRef)
\* ---------------------------------------------------------------------
\* C15 as stated: for every matched set, question and max_blocks >= 0 the
\* value returned has at most max_blocks reference entries, and no two of
\* them have the same header.
C15_AtMostMaxBlocksDistinct ==
    ref_out # None =>
        LET out == ref_out[1]
        IN  /\ Len(out.references) <= ref_in.max_blocks
            /\ Len(out.references) = Len(out.unique_blocks)
            /\ \A j, k \in 1..Len(out.unique_blocks) :
                  j # k => header_of(out.unique_blocks[j]) # header_of(out.unique_blocks[k])

\* C15 case: max_blocks = 0 and one reference entry came back.
C15_Witness ==
    /\ ref_out # None
    /\ ref_in.max_blocks = 0
    /\ Len(ref_in.blocks) = 2
    /\ Len(ref_out[1].references) = 1
    /\ ref_out[1].value = ref_out[1].references[1]

\* The end of the longest digits(.digits)* that starts s, given that its
\* first run of digits ends before position i.
RECURSIVE NumericPrefixEnd(_, _)
NumericPrefixEnd(s, i) ==
    IF dotted_level(s, i) > i THEN NumericPrefixEnd(s, dotted_level(s, i)) ELSE i

\* The whole leading number of a header, "Unknown" when the header does not
\* start with a digit.
LeadingNumber(h) ==
    IF digits_at(h, 1) = 0 THEN <<"Unknown">>
    ELSE SubSeq(h, 1, NumericPrefixEnd(h, 1 + digits_at(h, 1)) - 1)

PageOf(block) ==
    IF "page" \in DOMAIN block THEN ToString(block.page) ELSE "Unknown"

\* C16 as stated: each reference line is 'Page <page> : Section <number> :
\* <header>' with <number> the whole leading digits(.digits)* of the header,
\* whatever its depth, and 'Unknown' when the header does not start with a
\* digit.
C16_WholeLeadingNumber ==
    ref_out # None =>
        \A k \in 1..Len(ref_out[1].references) :
            LET block == ref_out[1].unique_blocks[k]
            IN  ref_out[1].references[k] =
                    <<"Page", " ", PageOf(block), " ", ":", " ", "Section", " ">>
                    \o LeadingNumber(header_of(block))
                    \o <<" ", ":", " ">> \o header_of(block)

\* The three examples of C16 hold.
C16_Examples ==
    /\ section_number(<<"2", ".", "1", " ", "Exclusions">>) = <<"2", ".", "1">>
    /\ section_number(<<"Exclusions">>) = <<"Unknown">>
    /\ reference_line([header |-> <<"1", " ", "Intro">>, page |-> 1])
          = <<"Page", " ", "1", " ", ":", " ", "Section", " ", "1", " ", ":", " ",
              "1", " ", "Intro">>

\* C16 case: the header 1.2.3.4 is cited as section 1.2.3.
C16_Witness ==
    /\ ref_out # None
    /\ Len(ref_out[1].references) = 2
    /\ header_of(ref_out[1].unique_blocks[2])
          = <<"1", ".", "2", ".", "3", ".", "4", " ", "Waiting">>
    /\ ref_out[1].references[2]
          = <<"Page", " ", "4", " ", ":", " ", "Section", " ", "1", ".", "2", ".", "3",
              " ", ":", " ", "1", ".", "2", ".", "3", ".", "4", " ", "Waiting">>

\* ---------------------------------------------------------------------
\* Failure handling of the batch (src/api_server.py, lines 155-165, 290-300)
\* ---------------------------------------------------------------------
IsError(resp) ==
    /\ resp # None
    /\ "status_code" \in DOMAIN resp[1]
    /\ "answers" \notin DOMAIN resp[1]

RejectedAtFirstCall(i) ==
    /\ exc[i] = "HTTPException"
    /\ reply[i] = None

\* C17: a 401 / 403 from the generator is fatal and not retried: a question
\* whose first generator call was rejected has made that one call and no
\* other, its task is over, and the request has ended with an error
\* response that carries no answer list.
C17_RejectionIsFatal ==
    \A i \in QIdx :
        RejectedAtFirstCall(i) =>
            /\ qpc[i] = "FAILED"
            /\ calls[i] = 1
            /\ Len(prompts[i]) = 1
            /\ result[i] = None
            /\ rpc = "raised"
            /\ IsError(response)

\* A first call was rejected while the other question had already been
\* answered; the request ended with the 502 of the rejection.
C17_Witness ==
    \E i, j \in QIdx :
        /\ i # j
        /\ RejectedAtFirstCall(i)
        /\ qpc[j] = "DONE"
        /\ rpc = "raised"
        /\ IsError(response)
        /\ response[1].status_code = 502

\* The generator answered with a status that is neither success nor an
\* authorization failure.
OtherFailures ==
    {o \in GenOutcomes : o.status \notin {NoResponse, 200, 401, 403}}

InBandError(v) ==
    /\ v # <<>>
    /\ v[1] = "Error: "

StatusErrors ==
    {query_groq(o).value : o \in OtherFailures}

GotStatusError(i) ==
    /\ reply[i] # None
    /\ reply[i][1].value \in StatusErrors

\* C18: a non-success response other than 401 / 403 never raises: query_groq
\* returns a string starting with "Error: ", the question that received it is
\* DONE with that string as its answer text, and when every question is
\* DONE the request has not failed and the answer list it returns has an
\* entry for every question, the error string among them.
C18_OtherFailuresInBand ==
    /\ \A o \in OtherFailures :
          /\ query_groq(o).raised = ""
          /\ InBandError(query_groq(o).value)
    /\ \A i \in QIdx :
          GotStatusError(i) =>
              /\ exc[i] = ""
              /\ qpc[i] = "DONE"
              /\ result[i] = Some(reply[i][1].value)
              /\ results[i] # None
              /\ results[i][1].text = py_strip(reply[i][1].value)
              /\ InBandError(results[i][1].text)
    /\ (\A i \in QIdx : qpc[i] = "DONE") => rpc \in {"gather", "returned"}
    /\ rpc = "returned" =>
          /\ "answers" \in DOMAIN response[1]
          /\ Len(response[1].answers) = NumQuestions
          /\ \A i \in QIdx : response[1].answers[i + 1] = results[i][1]

\* The request returned its answer list, in which one answer is the in-band
\* error of a status 500 and another is a real answer.
C18_Witness ==
    \E i, j \in QIdx :
        /\ GotStatusError(i)
        /\ reply[j] # None /\ reply[j][1].value = <<"7", " ">>
        /\ rpc = "returned"
        /\ InBandError(response[1].answers[i + 1].text)
        /\ response[1].answers[j + 1].text = <<"7">>

\* Question j's task ended, with its answer or by an exception of its own.
Finished(j) ==
    \/ qpc[j] = "DONE"
    \/ qpc[j] = "FAILED" /\ exc[j] # ""

\* A step that moves question j's task is a step of that task: a reply to
\* its own pending generator call, or its own exception.
OwnStep(j) ==
    \/ reply'[j] # None /\ reply'[j] # reply[j]
    \/ exc[j] = "" /\ exc'[j] # ""

\* C19: the failure of one question's task cancels no sibling: in the step
\* in which a task fails and in every later step, a sibling that has not
\* finished is moved by its own generator replies only, is never cancelled,
\* and goes on to its own end (DONE, unless a call of its own raises).
C19_NoSiblingCancellation ==
    /\ [][\A j \in QIdx :
            (/\ Pending(j)
             /\ \E i \in QIdx \ {j} : qpc'[i] = "FAILED"
             /\ qpc'[j] # qpc[j]) =>
                 /\ OwnStep(j)
                 /\ qpc'[j] \in {"ESCALATED", "DONE", "FAILED"}
                 /\ (qpc'[j] = "FAILED" => exc'[j] # "")]_vars
    /\ \A j \in QIdx :
          (Pending(j) /\ \E i \in QIdx \ {j} : qpc[i] = "FAILED") ~> Finished(j)

\* One task failed when the tasks were started, before any generator reply;
\* the other task made both of its generator calls after that and is DONE.
C19_Witness ==
    \E i, j \in QIdx :
        /\ i # j
        /\ exc[i] = "UploadError" /\ calls[i] = 0
        /\ rpc = "raised"
        /\ qpc[j] = "DONE"
        /\ calls[j] = 2
        /\ results[j] # None

\* C20: whole-batch failure: as soon as the task of any one question has
\* raised, the request has ended with an error response that carries no
\* answer list, whatever the other questions did; an answer list is
\* returned only when no task raised.
C20_WholeBatchFailure ==
    /\ (\E i \in QIdx : qpc[i] = "FAILED") =>
          /\ rpc = "raised"
          /\ IsError(response)
          /\ response[1].status_code \in {500, 502}
    /\ (response # None /\ "answers" \in DOMAIN response[1]) =>
          \A i \in QIdx : qpc[i] = "DONE" /\ exc[i] = ""

\* One question's generator call got no response and its task raised; the
\* other question had completed with its answer; the request ended in 500.
C20_Witness ==
    \E i, j \in QIdx :
        /\ i # j
        /\ qpc[i] = "FAILED" /\ exc[i] = "ClientError"
        /\ qpc[j] = "DONE" /\ results[j] # None
        /\ rpc = "raised"
        /\ response = Some(error_response("ClientError"))

\* ---------------------------------------------------------------------
\* Properties of the embedding MatchEngine (checked under SpecEmbed)
\* ---------------------------------------------------------------------
\* C21: the embedding strategy keeps the keyword strategy's contract: for a
\* non-empty input it returns a non-empty list (every block when none is
\* above the threshold), in ascending order_index.
C21_EmbeddingSameContract ==
    (mpc = "returned" /\ Len(paragraphs) > 0) =>
        /\ matched_blocks # <<>>
        /\ \A k \in 1..(Len(matched_blocks) - 1) :
              matched_blocks[k].order_index < matched_blocks[k + 1].order_index

\* No block is above the threshold and the embedding strategy returned
\* nothing for a document of MaxBlocks blocks.
C21_Witness ==
    /\ mpc = "returned"
    /\ Len(paragraphs) = MaxBlocks
    /\ \A i \in 1..Len(paragraphs) : query.similarities[i] <= SimThreshold
    /\ matched_blocks = <<>>

\* ---------------------------------------------------------------------
\* The block sequence as a frame (checked under Spec)
\* ---------------------------------------------------------------------
HasControlChar(block) ==
    \E k \in 1..Len(block.text) : block.text[k] \in ControlChars

\* C22: the block sequence of the document is never mutated: once loaded it
\* is the sequence ingestion produced, element for element, after every
\* match_blocks (whose export sanitizes copies), prompt, reference and
\* interleaving of the questions' tasks, and no step changes it.
C22_BlocksImmutable ==
    /\ [][blocks # None => blocks' = blocks]_vars
    /\ [](blocks # None =>
            /\ blocks[1] = extract_formatted_blocks(req.documents)
            /\ \A i \in QIdx : matched[i] # None =>
                  \A k \in 1..Len(matched[i][1]) :
                      matched[i][1][k] = blocks[1][matched[i][1][k].order_index + 1])

\* The batch returned its answers, one question after an escalated prompt
\* over the whole document, and a block that match_blocks exported in
\* sanitized form still carries its control character.
C22_Witness ==
    /\ rpc = "returned"
    /\ \E i \in QIdx : calls[i] = 2
    /\ \E i \in QIdx : \E k \in 1..Len(matched[i][1]) :
          /\ HasControlChar(matched[i][1][k])
          /\ HasControlChar(blocks[1][matched[i][1][k].order_index + 1])
          /\ ~HasControlChar(sanitize_block_for_json(matched[i][1][k]))

\* ---------------------------------------------------------------------
\* Empty input (checked under SpecMatch)
\* ---------------------------------------------------------------------
\* C23 as stated: for a document with zero blocks match_blocks returns an
\* empty result and does not raise, for every query, top_n and
\* include_neighbors.
C23_EmptyInputNotError ==
    (Len(paragraphs) = 0 /\ mpc # "call") =>
        /\ mpc = "returned"
        /\ matched_blocks = <<>>

\* What holds of C23: the selection itself never raises on zero blocks, and
\* when the export goes through the call returns the empty list.
C23_EmptyWhenExported ==
    Len(paragraphs) = 0 =>
        /\ \A ok \in BOOLEAN :
              /\ match_blocks(paragraphs, query, top_n, include_neighbors, ok).raised
                    \in {"", "UploadError"}
              /\ match_blocks(paragraphs, query, top_n, include_neighbors, ok).matched_indices = {}
        /\ mpc = "returned" => matched_blocks = <<>>

\* C23 case: match_blocks was called on zero blocks with a top_n and with
\* neighbors, the export of the empty selection failed, and the call raised.
C23_Witness ==
    /\ Len(paragraphs) = 0
    /\ top_n = Some(2)
    /\ include_neighbors
    /\ mpc = "raised"
    /\ matched_indices = {}

\* ---------------------------------------------------------------------
\* The missing credential (checked under Spec)
\* ---------------------------------------------------------------------
\* C24: with the credential unset the request fails before anything is
\* processed: no step performs a cache lookup, an ingestion or a cache put,
\* no blocks are loaded, no question is matched or sent to the generator,
\* and the only thing the request does is answer with its error.
C24_NoKeyFailsFirst ==
    /\ [][~GROQ_API_KEY =>
            /\ UNCHANGED cacheVars
            /\ UNCHANGED <<blocks, qpc, calls, prompts, matched, result, reply, results>>
            /\ rpc' = "raised"
            /\ response' = Some([status_code |-> 500,
                                 detail |-> "Groq API key not set"])]_vars
    /\ [](~GROQ_API_KEY =>
            /\ rpc \in {"start", "raised"}
            /\ cache_op.op = "none"
            /\ existing = None
            /\ blocks = None
            /\ \A i \in QIdx :
                  qpc[i] = "NEW" /\ calls[i] = 0 /\ prompts[i] = <<>> /\ matched[i] = None)

\* The request failed for the missing credential although the cache held
\* the document: no lookup was made.
C24_Witness ==
    /\ ~GROQ_API_KEY
    /\ rpc = "raised"
    /\ response = Some([status_code |-> 500, detail |-> "Groq API key not set"])
    /\ processed_docs # <<>>
    /\ cache_op.op = "none"
    /\ blocks = None

\* ---------------------------------------------------------------------
\* Loading the language resource (checked under SpecNlp)
\* ---------------------------------------------------------------------
Raised(k) ==
    nlp_log[k].raised # ""

\* C25 as stated: when the language resource cannot be loaded the failure
\* is raised once, not per call: the load is attempted at most once over
\* the life of the process and at most one call raises for it.
C25_LoadAttemptedOnce ==
    /\ load_attempts <= 1
    /\ Cardinality({k \in 1..Len(nlp_log) : Raised(k)}) <= 1

\* What holds of C25: a load that succeeds is made once and reused, and with
\* the resource missing every call attempts the load and raises.
C25_OneLoadPerFailure ==
    /\ spacy_model_installed =>
          /\ load_attempts = (IF nlp_log = <<>> THEN 0 ELSE 1)
          /\ \A k \in 1..Len(nlp_log) : ~Raised(k)
    /\ ~spacy_model_installed =>
          /\ load_attempts = Len(nlp_log)
          /\ nlp_cache = None
          /\ \A k \in 1..Len(nlp_log) : Raised(k)

\* C25 case: the resource is missing and two calls were made; each of them
\* attempted the load and raised.
C25_Witness ==
    /\ ~spacy_model_installed
    /\ Len(nlp_log) = 2
    /\ load_attempts = 2
    /\ Raised(1) /\ Raised(2)

\* ---------------------------------------------------------------------
\* Selection under top_n (checked under SpecMatch)
\* ---------------------------------------------------------------------
ScoreAt(i) ==
    match_score(paragraphs[i + 1], extract_keywords(query))

AllPositions ==
    0..(Len(paragraphs) - 1)

\* The blocks selection chooses among: those scoring above zero, or all of
\* them when none does.
Candidates ==
    IF \A i \in AllPositions : ScoreAt(i) = 0
    THEN AllPositions
    ELSE {i \in AllPositions : ScoreAt(i) > 0}

\* C26: under top_n = k the selection is the k best blocks by descending
\* score, ties to the lower position: min(k, candidates) blocks are
\* selected, no unselected block scores strictly higher than a selected one
\* or equally with a lower position, and when every score is 0 the
\* selection is exactly the first min(k, len) blocks.
C26_TopNBestStable ==
    (mpc # "call" /\ top_n # None) =>
        /\ selected \subseteq Candidates
        /\ Cardinality(selected) = Min(top_n[1], Cardinality(Candidates))
        /\ \A sl \in selected : \A u \in AllPositions \ selected :
              /\ ScoreAt(u) <= ScoreAt(sl)
              /\ ScoreAt(u) = ScoreAt(sl) => sl < u
        /\ (\A i \in AllPositions : ScoreAt(i) = 0) =>
              selected = 0..(Min(top_n[1], Len(paragraphs)) - 1)

\* Three blocks score above zero, the first lower than the other two, which
\* tie; top_n = 1 selected the earlier of the tied blocks.
C26_Witness ==
    /\ mpc = "returned"
    /\ top_n = Some(1)
    /\ Len(paragraphs) = 3
    /\ 0 < ScoreAt(0)
    /\ ScoreAt(0) < ScoreAt(1)
    /\ ScoreAt(1) = ScoreAt(2)
    /\ selected = {1}

\* ---------------------------------------------------------------------
\* The contexts of the two prompts (checked under Spec)
\* ---------------------------------------------------------------------
Ascending(bs) ==
    \A k \in 1..(Len(bs) - 1) : bs[k].order_index < bs[k + 1].order_index

\* The text lines of a context, in order.
TextLines(context) ==
    LET RECURSIVE pick(_)
        pick(k) == IF k > Len(context) THEN <<>>
                   ELSE (IF context[k].kind = "text" THEN <<context[k].value>> ELSE <<>>)
                        \o pick(k + 1)
    IN  pick(1)

\* What a block contributes to a context: api_server.py:85.
BlockText(block) ==
    py_strip(IF block.flagged_text # None THEN block.flagged_text[1] ELSE block.text)

\* C27: the first prompt of a question is built from exactly the blocks
\* match_blocks returned for it and the escalated prompt from exactly the
\* whole block sequence of the document, each in ascending order; the
\* escalated context is the same whatever was matched.
C27_PromptContexts ==
    \A i \in QIdx :
        /\ Len(prompts[i]) >= 1 =>
              /\ prompts[i][1].context = format_context_with_headers(matched[i][1])
              /\ TextLines(prompts[i][1].context)
                    = [k \in 1..Len(matched[i][1]) |-> BlockText(matched[i][1][k])]
              /\ Ascending(matched[i][1])
        /\ Len(prompts[i]) >= 2 =>
              /\ prompts[i][2].context = format_context_with_headers(blocks[1])
              /\ TextLines(prompts[i][2].context)
                    = [k \in 1..Len(blocks[1]) |-> BlockText(blocks[1][k])]
              /\ Ascending(blocks[1])
              /\ \A j \in QIdx : Len(prompts[j]) >= 2 =>
                    prompts[j][2].context = prompts[i][2].context

\* Two questions were escalated; what was matched for them differs and is
\* not the whole document, and their escalated contexts are the same.
C27_Witness ==
    \E i, j \in QIdx :
        /\ Len(prompts[i]) = 2 /\ Len(prompts[j]) = 2
        /\ matched[i][1] # matched[j][1]
        /\ Len(matched[i][1]) < Len(blocks[1])
        /\ prompts[i][1].context # prompts[i][2].context
        /\ prompts[i][2].context = prompts[j][2].context

\* ---------------------------------------------------------------------
\* Header lines of a context (checked under SpecCtx)
\* ---------------------------------------------------------------------
HeaderAt(chunks, k) ==
    py_strip(chunks[k].header)

\* Block k gets a header line: its header is non-empty and differs from the
\* header of the latest earlier block that got one.
RECURSIVE Emits(_, _)
Emits(chunks, k) ==
    /\ HeaderAt(chunks, k) # <<>>
    /\ LET prev == {j \in 1..(k - 1) : Emits(chunks, j)}
       IN  \/ prev = {}
           \/ HeaderAt(chunks, CHOOSE j \in prev : \A l \in prev : l <= j)
                 # HeaderAt(chunks, k)

RECURSIVE ExpectedContext(_, _)
ExpectedContext(chunks, k) ==
    IF k > Len(chunks) THEN <<>>
    ELSE (IF Emits(chunks, k)
          THEN <<[kind |-> "header", value |-> HeaderAt(chunks, k)]>>
          ELSE <<>>)
         \o <<[kind |-> "text", value |-> py_strip(chunks[k].text)]>>
         \o ExpectedContext(chunks, k + 1)

HeaderLines(context) ==
    Cardinality({k \in 1..Len(context) : context[k].kind = "header"})

CtxOf(headers) ==
    [k \in 1..Len(headers) |->
        [header |-> headers[k], text |-> <<"t">>, flagged_text |-> None]]

PipelineMoves ==
    { <<"NEW", "INITIAL">>, <<"NEW", "FAILED">>,
      <<"INITIAL", "ESCALATED">>, <<"INITIAL", "DONE">>, <<"INITIAL", "FAILED">>,
      <<"ESCALATED", "DONE">>, <<"ESCALATED", "FAILED">> }

BatchEnded ==
    /\ rpc \in {"returned", "raised"}
    /\ response # None
    /\ \/ IsError(response)
       \/ /\ "answers" \in DOMAIN response[1]
          /\ Len(response[1].answers) = NumQuestions

HitServed(r) ==
    /\ lpc[r] = "done"
    /\ lrow[r] # None
    /\ lblocks[r] # None

\* C30 as stated: a request served by a cache hit for its document answers
\* from the block sequence that ingesting that document produced, whatever
\* other documents were ingested in between.
C30_HitYieldsOwnBlocks ==
    \A r \in Reqs :
        HitServed(r) => lblocks[r] = Some(extract_formatted_blocks(lreq[r]))

\* C30 case: the cache holds a row for each of two documents, no cache call
\* failed, and a request for the first document was a hit and got the
\* blocks of the other one.
C30_Witness ==
    \E r \in Reqs :
        /\ HitServed(r)
        /\ lreq[r] = DocUrl
        /\ lrow[r][1].url = DocUrl
        /\ lfail[r] = {}
        /\ \E k \in 1..Len(processed_docs) : processed_docs[k].url # DocUrl
        /\ lblocks[r] = Some(DocumentB)

\* ---------------------------------------------------------------------
\* The references of an answer (checked under Spec)
\* ---------------------------------------------------------------------
QuestionText(i) ==
    req.questions[i + 1].text

\* C31: the references of a question are computed from what match_blocks
\* returned for it, also when the answer came from the escalated call over
\* the whole document: they are format_reference of the matched list, and
\* every cited block is one of the matched blocks.
C31_ReferencesFromMatched ==
    \A i \in QIdx :
        results[i] # None =>
            /\ results[i][1].cited
                  = format_reference(matched[i][1], DefaultMaxBlocks,
                                     QuestionText(i)).unique_blocks
            /\ results[i][1].reference
                  = format_reference(matched[i][1], DefaultMaxBlocks,
                                     QuestionText(i)).value
            /\ Range(results[i][1].cited) \subseteq Range(matched[i][1])
            /\ Len(results[i][1].cited) <= DefaultMaxBlocks

\* A question was answered by its escalated call; what was matched for it
\* is less than the document, format_reference of the whole document would
\* cite a block that was not matched, and the answer cites matched blocks
\* only.
C31_Witness ==
    \E i \in QIdx :
        /\ qpc[i] = "DONE"
        /\ calls[i] = 2
        /\ Len(matched[i][1]) < Len(blocks[1])
        /\ results[i][1].cited # <<>>
        /\ Range(results[i][1].cited) \subseteq Range(matched[i][1])
        /\ ~(Range(format_reference(blocks[1], DefaultMaxBlocks,
                                    QuestionText(i)).unique_blocks)
                \subseteq Range(matched[i][1]))

\* ---------------------------------------------------------------------
\* Trigger phrases of format_reference (checked under SpecRef)
\* ---------------------------------------------------------------------
QGeneral == <<"What", " ", "is", " ", "covered", "?">>

QMaternity == <<"Maternity", " ", "cover", "?">>

QBoth == <<"moratorium", " ", "or", " ", "Grace", " ", "period", "?">>

\* The flag set of the trigger phrase of a question: the first phrase of
\* the table that the question contains; empty without a trigger phrase.
TriggerFlags(question) ==
    IF question = QBoth THEN {"CONDITION", "HIGH PRIORITY"}
    ELSE IF question = QMaternity THEN {"MATERNITY", "COVERS", "EXCLUDES", "CONDITION"}
    ELSE {}

Carries(block, flags) ==
    /\ "coverage_flags" \in DOMAIN block
    /\ Range(block.coverage_flags) \cap flags # {}

\* The positions of blks whose header differs from every earlier header.
DistinctHeaderPositions(blks) ==
    {k \in 1..Len(blks) :
        \A j \in 1..(k - 1) : header_of(blks[j]) # header_of(blks[k])}

\* The first n blocks of distinct header, in the order of blks.
FirstDistinct(blks, n) ==
    LET pos == sorted(DistinctHeaderPositions(blks))
    IN  [k \in 1..Min(n, Len(pos)) |-> blks[pos[k]]]

Placeholder == <<"No relevant sections found">>

\* C32 as stated: with a trigger phrase in the question (the first of the
\* table wins) only blocks carrying a flag of that phrase's set are cited,
\* and the placeholder is returned when no block carries one; without a
\* trigger phrase the cited blocks are the first max_blocks blocks of
\* distinct header, in match order.
C32_TriggerPhraseBias ==
    ref_out # None =>
        LET out   == ref_out[1]
            flags == TriggerFlags(ref_in.question)
        IN  /\ flags # {} =>
                  /\ \A k \in 1..Len(out.unique_blocks) :
                        Carries(out.unique_blocks[k], flags)
                  /\ (\A k \in 1..Len(ref_in.blocks) : ~Carries(ref_in.blocks[k], flags))
                        => out.value = Placeholder
            /\ flags = {} =>
                  out.unique_blocks = FirstDistinct(ref_in.blocks, ref_in.max_blocks)

\* What holds of C32: the clauses on the trigger phrase for every
\* max_blocks, and the clause without a trigger phrase for max_blocks >= 1.
C32_FromOneBlock ==
    ref_out # None =>
        LET out   == ref_out[1]
            flags == TriggerFlags(ref_in.question)
        IN  /\ flags # {} =>
                  /\ \A k \in 1..Len(out.unique_blocks) :
                        Carries(out.unique_blocks[k], flags)
                  /\ (\A k \in 1..Len(ref_in.blocks) : ~Carries(ref_in.blocks[k], flags))
                        => out.value = Placeholder
            /\ (flags = {} /\ ref_in.max_blocks >= 1) =>
                  out.unique_blocks = FirstDistinct(ref_in.blocks, ref_in.max_blocks)

\* C32 case: a question without a trigger phrase, max_blocks = 0 and blocks
\* of two different headers; one block is cited although the first 0
\* blocks are none.
C32_Witness ==
    /\ ref_out # None
    /\ ref_in.question = QGeneral
    /\ ref_in.max_blocks = 0
    /\ Cardinality(DistinctHeaderPositions(ref_in.blocks)) = 2
    /\ ref_out[1].unique_blocks = <<ref_in.blocks[1]>>
    /\ FirstDistinct(ref_in.blocks, 0) = <<>>

\* The trigger phrase at work: the question names both "moratorium" and
\* "grace period", the blocks are not empty, none carries a flag of
\* "grace period" though one carries a flag of "moratorium", and the
\* placeholder is returned.
C32_PlaceholderReached ==
    /\ ref_out # None
    /\ ref_in.question = QBoth
    /\ ref_in.max_blocks = DefaultMaxBlocks
    /\ ref_in.blocks # <<>>
    /\ \E k \in 1..Len(ref_in.blocks) :
          Carries(ref_in.blocks[k], {"PRE-EXISTING"})
    /\ ref_out[1].value = Placeholder

\* ---------------------------------------------------------------------
\* In-band generator errors and the groundedness check (checked under Spec)
\* ---------------------------------------------------------------------
ParseError == <<"Error: ", "Failed to parse Groq response">>

Unparsable == [status |-> 200, parsable |-> FALSE, content |-> <<>>]

\* C33: the in-band error strings of the generator go through the same
\* check as answers. "Error: Groq returned status <code>" has a digit, so a
\* question whose first response it is makes no second call and is DONE with
\* the error string as its answer text; "Error: Failed to parse Groq
\* response" has no digit, so a question whose first response it is always
\* makes the escalated second call.
C33_ErrorsThroughGroundedness ==
    /\ \A o \in OtherFailures :
          /\ has_digit(query_groq(o).value)
          /\ ~contains(query_groq(o).value, AnswerNotFound)
          /\ after_first(query_groq(o).value) = "DONE"
    /\ query_groq(Unparsable) = [raised |-> "", value |-> ParseError]
    /\ ~has_digit(ParseError)
    /\ after_first(ParseError) = "ESCALATED"
    /\ \A i \in QIdx :
          /\ (HasFirstResponse(i) /\ reply[i][1].value \in StatusErrors) =>
                /\ calls[i] = 1
                /\ Len(prompts[i]) = 1
                /\ qpc[i] = "DONE"
                /\ results[i] # None
                /\ results[i][1].text = py_strip(reply[i][1].value)
          /\ FirstResponseIs(i, ParseError) =>
                /\ calls[i] = 2
                /\ Len(prompts[i]) = 2
                /\ qpc[i] \in {"ESCALATED", "FAILED"}
                /\ results[i] = None

\* C33 witness: one question's first response is the parse error and it
\* waits for its second call; another's is the status error and it is DONE
\* after one call with the error string as its answer.
C33_Witness ==
    \E i, j \in QIdx :
        /\ FirstResponseIs(i, ParseError)
        /\ qpc[i] = "ESCALATED" /\ calls[i] = 2
        /\ HasFirstResponse(j) /\ reply[j][1].value \in StatusErrors
        /\ qpc[j] = "DONE" /\ calls[j] = 1
        /\ results[j][1].text = <<"Error: ", "Groq returned status", " ", "500">>

====
